---------------------------- MODULE Spec2Model ----------------------------
(***************************************************************************)
(* A model of ls_core's Document: a line-organised text buffer with        *)
(* anchors, self-inverting changes and packeted undo/redo                  *)
(* (src/ls_core/src/document.rs).                                          *)
(*                                                                         *)
(* Text is a sequence of Unicode codepoints (integers); a String's byte    *)
(* length is the sum of the UTF-8 widths of its codepoints.  Option<T> is  *)
(* a sequence of length at most one.  A HashMap is a function; its         *)
(* iteration order is an input of the operations that iterate it.          *)
(***************************************************************************)
EXTENDS Integers, Sequences, FiniteSets, TLC

\* Bounds of the model (not program constants).
MaxTracked == 2
MaxRows == 2
MaxLineLen == 3
MaxHandle == 2
\* The width in bits of usize and isize in the model of Indentation.
WordBits == 6

\* Anchors::CURSOR and Anchors::MARK.
CURSOR == 0
MARK == 1

VARIABLES doc, tracked, panicked

vars == <<doc, tracked, panicked>>

----------------------------------------------------------------------------
\* Generic helpers.

Min(a, b) == IF a < b THEN a ELSE b

Last(s) == s[Len(s)]

Front(s) == SubSeq(s, 1, Len(s) - 1)

Reverse(s) == [i \in 1..Len(s) |-> s[Len(s) + 1 - i]]

\* Iterator::take(n) and Iterator::skip(n) over the chars of a string.
Take(s, n) == SubSeq(s, 1, Min(n, Len(s)))

Skip(s, n) == SubSeq(s, Min(n, Len(s)) + 1, Len(s))

\* char::len_utf8
Utf8Len(c) == IF c < 128 THEN 1 ELSE IF c < 2048 THEN 2 ELSE IF c < 65536 THEN 3 ELSE 4

\* str::len: the byte length of a string.
RECURSIVE ByteLen(_)
ByteLen(s) == IF Len(s) = 0 THEN 0 ELSE Utf8Len(s[1]) + ByteLen(Tail(s))

----------------------------------------------------------------------------
\* util.rs

\* substring(s, start, len): skip `start` codepoints (or stop at the end of
\* s), then take up to `len` codepoints.
substring(s, start, len) ==
    LET from == Min(start, Len(s))
        upto == Min(from + len, Len(s))
    IN  SubSeq(s, from + 1, upto)

\* slice(s, start..): len = s.len() - start, in usize; s.len() counts bytes.
slice_from_ok(s, start) == ByteLen(s) >= start

slice_from(s, start) == substring(s, start, ByteLen(s) - start)

\* slice(s, ..end): start = 0, len = end.
slice_to(s, end) == substring(s, 0, end)

\* byte_index_to_cp(s, byte): the loop over s.char_indices(), at the char of
\* (1-based) index i and byte offset b; then the test after the loop.
RECURSIVE ByteIndexLoop(_, _, _, _, _)
ByteIndexLoop(s, i, b, cp_index, byte) ==
    IF i > Len(s) THEN (IF byte = ByteLen(s) THEN <<cp_index>> ELSE <<>>)
    ELSE IF b > byte THEN <<>>
    ELSE IF b = byte THEN <<cp_index>>
    ELSE ByteIndexLoop(s, i + 1, b + Utf8Len(s[i]), cp_index + 1, byte)

byte_index_to_cp(s, byte) == ByteIndexLoop(s, 1, 0, 0, byte)

\* cp_index_to_byte(s, cp), likewise.
RECURSIVE CpIndexLoop(_, _, _, _, _)
CpIndexLoop(s, i, b, cp_index, cp) ==
    IF i > Len(s) THEN (IF cp_index = cp THEN <<ByteLen(s)>> ELSE <<>>)
    ELSE IF cp_index > cp THEN <<>>
    ELSE IF cp_index = cp THEN <<b>>
    ELSE CpIndexLoop(s, i + 1, b + Utf8Len(s[i]), cp_index + 1, cp)

cp_index_to_byte(s, cp) == CpIndexLoop(s, 1, 0, 0, cp)

\* LINE_SPLIT.split(text): the pieces of text between line feeds.
RECURSIVE LineSplit(_)
LineSplit(text) ==
    LET nl == {i \in 1..Len(text) : text[i] = 10}
    IN  IF nl = {} THEN <<text>>
        ELSE LET i == CHOOSE j \in nl : \A k \in nl : j <= k
             IN  <<SubSeq(text, 1, i - 1)>> \o LineSplit(SubSeq(text, i + 1, Len(text)))

----------------------------------------------------------------------------
\* Value types.

Pos(r, c) == [row |-> r, column |-> c]

\* derive(PartialOrd, Ord) on Position: row first, then column.
PosLT(a, b) == a.row < b.row \/ (a.row = b.row /\ a.column < b.column)

PosLE(a, b) == a = b \/ PosLT(a, b)

Rng(b, e) == [beginning |-> b, ending |-> e]

RangeEmpty(r) == r.beginning = r.ending

AnchorAt(p) == [position |-> p]

LineFrom(content) == [content |-> content, length |-> Len(content)]

IndSpaces(n) == [use_spaces |-> TRUE, spaces_per_tab |-> n]

IndTabs(n) == [use_spaces |-> FALSE, spaces_per_tab |-> n]

\* The Change variants.
ChInsert(text, position) == [type |-> "Insert", text |-> text, position |-> position]

ChRemove(range) == [type |-> "Remove", range |-> range]

ChAnchorSet(h, v) == [type |-> "AnchorSet", handle |-> h, value |-> v]

ChAnchorInsert(h, v) == [type |-> "AnchorInsert", handle |-> h, value |-> v]

ChAnchorRemove(h) == [type |-> "AnchorRemove", handle |-> h]

ChIndentation(v) == [type |-> "IndentationChange", value |-> v]

ChLanguage(v) == [type |-> "LanguageChange", value |-> v]

\* Result values: Ok(n) and the Oops kinds, with their numeric payload.
Res(kind, n) == [kind |-> kind, n |-> n]

Ok == Res("Ok", 0)

----------------------------------------------------------------------------
\* Indentation.  usize and isize are WordBits wide; arithmetic that leaves
\* the range panics in a build with overflow checks ("debug") and wraps in
\* one without ("release").  A space is 32, a tab 9.

UsizeModulus == 2 ^ WordBits

IsizeMin == -(2 ^ (WordBits - 1))

IsizeMax == 2 ^ (WordBits - 1) - 1

FitsIsize(x) == IsizeMin <= x /\ x <= IsizeMax

\* A value wrapped into isize, as a wrapping operation or an `as` cast does.
WrapIsize(x) == ((x - IsizeMin) % UsizeModulus) + IsizeMin

Builds == {"debug", "release"}

\* The loop of measure at the char of (1-based) index i and byte offset
\* `byte`; `spaces` is the sum so far, before any wrapping.
RECURSIVE MeasureLoop(_, _, _, _, _)
MeasureLoop(ind, s, i, byte, spaces) ==
    IF i > Len(s) THEN [spaces |-> spaces, bytes |-> ByteLen(s)]
    ELSE IF s[i] = 32 THEN MeasureLoop(ind, s, i + 1, byte + Utf8Len(s[i]), spaces + 1)
    ELSE IF s[i] = 9
    THEN MeasureLoop(ind, s, i + 1, byte + Utf8Len(s[i]), spaces + ind.spaces_per_tab)
    ELSE [spaces |-> spaces, bytes |-> byte]

\* Indentation::measure: (spaces, bytes); overflow where `spaces +=` left
\* the range of usize.
measure(ind, s) ==
    LET m == MeasureLoop(ind, s, 1, 0, 0)
    IN  [spaces |-> m.spaces % UsizeModulus, bytes |-> m.bytes,
         overflow |-> m.spaces >= UsizeModulus]

\* Indentation::produce
produce(ind, spaces) ==
    IF ind.use_spaces THEN [i \in 1..spaces |-> 32]
    ELSE [i \in 1..(spaces \div ind.spaces_per_tab) |-> 9]
            \o [i \in 1..(spaces % ind.spaces_per_tab) |-> 32]

\* &line[byte..]: the chars of s from byte offset `byte` on.
RECURSIVE StrFromByte(_, _)
StrFromByte(s, byte) ==
    IF byte <= 0 \/ Len(s) = 0 THEN s ELSE StrFromByte(Tail(s), byte - Utf8Len(s[1]))

\* indent once the margin is measured as m and requested_spaces computed
\* (before wrapping) as `requested`, `overflow` telling whether an operation
\* left its range.
IndentFrom(ind, s, m, requested, overflow, include_content, build) ==
    IF overflow /\ build = "debug" THEN [panic |-> TRUE, value |-> <<>>]
    ELSE [panic |-> FALSE,
          value |-> produce(ind, IF WrapIsize(requested) < 0 THEN 0 ELSE WrapIsize(requested))
                        \o (IF include_content THEN StrFromByte(s, m.bytes) ELSE <<>>)]

\* Indentation::indent
indent(ind, s, indent_delta, include_content, build) ==
    LET m == measure(ind, s)
        product == indent_delta * WrapIsize(ind.spaces_per_tab)
        requested == WrapIsize(m.spaces) + WrapIsize(product)
    IN  IndentFrom(ind, s, m, requested,
                   m.overflow \/ ~FitsIsize(product) \/ ~FitsIsize(requested),
                   include_content, build)

----------------------------------------------------------------------------
\* Anchors

AnchorsNew ==
    [store |-> (CURSOR :> AnchorAt(Pos(0, 0))) @@ (MARK :> AnchorAt(Pos(0, 0))),
     next_id |-> 2]

Handles(d) == DOMAIN d.anchors.store

\* Anchors::set: Err(NonexistentAnchor) if absent, else the old value.
anchors_set_ok(a, handle) == handle \in DOMAIN a.store

\* A faulty Anchors::set: every anchor of the store takes the value.
anchors_set_every(a, handle, value) ==
    [a EXCEPT !.store = [h \in DOMAIN a.store |-> value]]

anchors_set(a, handle, value) == [a EXCEPT !.store[handle] = value]

\* Anchors::create with a forced handle: HashMap::insert.
anchors_create(a, anchor, handle) ==
    [a EXCEPT !.store = [h \in (DOMAIN a.store) \cup {handle} |->
                            IF h = handle THEN anchor ELSE a.store[h]]]

\* A faulty Anchors::remove: the reserved handles are not refused.
anchors_remove_res_unreserved(a, handle) ==
    IF handle \notin DOMAIN a.store THEN "NonexistentAnchor" ELSE "Ok"

\* Anchors::remove: the Oops kind it fails with, or "Ok".
anchors_remove_res(a, handle) ==
    IF handle = CURSOR \/ handle = MARK THEN "CannotRemoveAnchor"
    ELSE IF handle \notin DOMAIN a.store THEN "NonexistentAnchor"
    ELSE "Ok"

anchors_remove(a, handle) ==
    [a EXCEPT !.store = [h \in (DOMAIN a.store) \ {handle} |-> a.store[h]]]

----------------------------------------------------------------------------
\* language.rs: the registry of grammars.

KnownLanguages == {"rs", "cpp", "java", "js", "py", "ts", "tsx", "sh", "test"}

\* get_parser: Some(parser) for a registered name, else None.
get_parser(lang_str) == IF lang_str \in KnownLanguages THEN <<lang_str>> ELSE <<>>

----------------------------------------------------------------------------
\* Document: queries.

position_valid(d, position) ==
    /\ position.row < Len(d.lines)
    /\ position.column <= d.lines[position.row + 1].length

range_valid(d, range) ==
    /\ position_valid(d, range.beginning)
    /\ position_valid(d, range.ending)
    /\ PosLE(range.beginning, range.ending)

cursor(d) == d.anchors.store[CURSOR]

mark(d) == d.anchors.store[MARK]

selection(d) ==
    IF PosLE(cursor(d).position, mark(d).position)
    THEN Rng(cursor(d).position, mark(d).position)
    ELSE Rng(mark(d).position, cursor(d).position)

depth(d) == <<Len(d.undo_stack), Len(d.redo_stack)>>

\* Document::text: the lines joined by "\n".
RECURSIVE JoinLines(_)
JoinLines(ls) ==
    IF Len(ls) = 0 THEN <<>>
    ELSE IF Len(ls) = 1 THEN ls[1].content
    ELSE ls[1].content \o <<10>> \o JoinLines(Tail(ls))

\* A faulty text: every line is terminated, the last one too.
text_terminated(d) == JoinLines(d.lines) \o <<10>>

text(d) == JoinLines(d.lines)

\* The loop of text_range over the rows strictly between the first and the
\* last: "\n" and the row's content, for rows from..to-1 (0-based).
RECURSIVE MiddleRows(_, _, _)
MiddleRows(ls, from, to) ==
    IF from >= to THEN <<>>
    ELSE <<10>> \o ls[from + 1].content \o MiddleRows(ls, from + 1, to)

\* A faulty text_range: no newline before the last row.
text_range_unbroken(d, range) ==
    IF ~range_valid(d, range) THEN <<>>
    ELSE IF range.beginning.row = range.ending.row
    THEN <<Take(Skip(d.lines[range.beginning.row + 1].content, range.beginning.column),
                range.ending.column - range.beginning.column)>>
    ELSE <<Skip(d.lines[range.beginning.row + 1].content, range.beginning.column)
           \o MiddleRows(d.lines, range.beginning.row + 1, range.ending.row)
           \o Take(d.lines[range.ending.row + 1].content, range.ending.column)>>

\* Document::text_range: None (<<>>) or Some(s) (<<s>>).
text_range(d, range) ==
    IF ~range_valid(d, range) THEN <<>>
    ELSE IF range.beginning.row = range.ending.row
    THEN <<Take(Skip(d.lines[range.beginning.row + 1].content, range.beginning.column),
                range.ending.column - range.beginning.column)>>
    ELSE <<Skip(d.lines[range.beginning.row + 1].content, range.beginning.column)
           \o MiddleRows(d.lines, range.beginning.row + 1, range.ending.row)
           \o <<10>>
           \o Take(d.lines[range.ending.row + 1].content, range.ending.column)>>

\* update_parse: acquire a parser for the language if there is none; without
\* one the tree is cleared, with one the whole text is parsed afresh.  A tree
\* is represented by the language of the parser and the text it was given.
update_parse(d) ==
    LET parser == IF d.parser = <<>> THEN get_parser(d.language) ELSE d.parser
    IN  IF parser = <<>>
        THEN [d EXCEPT !.parser = <<>>, !.tree = <<>>]
        ELSE [d EXCEPT !.parser = parser,
                       !.tree = <<[language |-> parser[1], text |-> text(d)]>>]

----------------------------------------------------------------------------
\* Document: the untracked primitives.  Each yields the new document, the
\* inverse Change and ok = FALSE where the code panics (the document is then
\* left as it was).

Done(d, inverse) == [doc |-> d, inverse |-> inverse, ok |-> TRUE]

Panic(d) == [doc |-> d, inverse |-> ChLanguage("panic"), ok |-> FALSE]

\* The inner loop of push_all_at: swap v[a + i] and v[b + i] for i in i..m-1.
RECURSIVE SwapBlock(_, _, _, _, _)
SwapBlock(v, a, b, i, m) ==
    IF i >= m THEN v
    ELSE SwapBlock([v EXCEPT ![a + i + 1] = v[b + i + 1], ![b + i + 1] = v[a + i + 1]],
                   a, b, i + 1, m)

\* The while loop of push_all_at.
RECURSIVE SwapLoop(_, _, _, _)
SwapLoop(v, offset, total, m) ==
    IF total - offset >= m
    THEN SwapLoop(SwapBlock(v, offset, total - m, 0, m), offset + m, total, m)
    ELSE v

\* push_all_at(v, offset, s): insert the items of s into v at index offset.
push_all_at(v, offset, s) ==
    IF Len(s) = 0 THEN v
    ELSE IF Len(v) = 0 THEN s
    ELSE LET pad == Len(s) - ((Len(v) - offset) % Len(s))
             padded == v \o [i \in 1..pad |-> LineFrom(<<>>)] \o s
             total == Len(padded)
         IN  SubSeq(SwapLoop(padded, offset, total, Len(s)), 1, total - pad)

\* insert_untracked, one line of text: `inserted` is the row up to the end
\* of the text, `after` the rest of the row.
InsertOneLine(d, position, inserted, after) ==
    Done(update_parse([d EXCEPT !.lines[position.row + 1] =
                          [content |-> inserted \o after, length |-> Len(inserted \o after)]]),
         ChRemove(Rng(position, Pos(position.row, Len(inserted)))))

\* A faulty InsertManyLines: the cached length of the last inserted line
\* leaves out the rest of the row appended to it.
InsertManyLinesShortLength(d, position, lines2, lst, after) ==
    Done(update_parse([d EXCEPT !.lines =
                          [lines2 EXCEPT ![lst] =
                              [content |-> lines2[lst].content \o after,
                               length |-> lines2[lst].length]]]),
         ChRemove(Rng(position, Pos(lst - 1, lines2[lst].length))))

\* insert_untracked, several lines: lines2 is self.lines after push_all_at,
\* lst the (1-based) index of the last inserted line.
InsertManyLines(d, position, lines2, lst, after) ==
    Done(update_parse([d EXCEPT !.lines =
                          [lines2 EXCEPT ![lst] =
                              [content |-> lines2[lst].content \o after,
                               length |-> lines2[lst].length + Len(after)]]]),
         ChRemove(Rng(position, Pos(lst - 1, lines2[lst].length))))

\* A faulty InsertSplit: one line of text is appended to the row.
InsertSplitAppended(d, txt, position, before, after) ==
    IF Len(txt) = 1
    THEN InsertOneLine(d, position, before \o after \o txt[1], <<>>)
    ELSE InsertManyLines(d, position,
             push_all_at([d.lines EXCEPT ![position.row + 1] =
                             [content |-> before \o txt[1], length |-> Len(before \o txt[1])]],
                         position.row + 1,
                         [i \in 1..(Len(txt) - 1) |-> LineFrom(txt[i + 1])]),
             position.row + Len(txt), after)

\* insert_untracked once the row is cut into `before` and `after`.
InsertSplit(d, txt, position, before, after) ==
    IF Len(txt) = 1
    THEN InsertOneLine(d, position, before \o txt[1], after)
    ELSE InsertManyLines(d, position,
             push_all_at([d.lines EXCEPT ![position.row + 1] =
                             [content |-> before \o txt[1], length |-> Len(before \o txt[1])]],
                         position.row + 1,
                         [i \in 1..(Len(txt) - 1) |-> LineFrom(txt[i + 1])]),
             position.row + Len(txt), after)

insert_untracked(d, txt, position) ==
    IF Len(txt) = 0 \/ ~position_valid(d, position) THEN Panic(d)
    ELSE InsertSplit(d, txt, position,
                     Take(d.lines[position.row + 1].content, position.column),
                     Skip(d.lines[position.row + 1].content, position.column))

\* A faulty RemoveInRow: the inverse inserts at the end of the range.
RemoveInRowAtEnd(d, b, e, content) ==
    IF ~slice_from_ok(content, e.column) THEN Panic(d)
    ELSE Done(update_parse([d EXCEPT !.lines[b.row + 1] =
                  LineFrom(slice_to(content, b.column) \o slice_from(content, e.column))]),
              ChInsert(<<substring(content, b.column, e.column - b.column)>>, e))

\* remove_untracked within one row whose content is `content`.
RemoveInRow(d, b, e, content) ==
    IF ~slice_from_ok(content, e.column) THEN Panic(d)
    ELSE Done(update_parse([d EXCEPT !.lines[b.row + 1] =
                  LineFrom(slice_to(content, b.column) \o slice_from(content, e.column))]),
              ChInsert(<<substring(content, b.column, e.column - b.column)>>, b))

\* A faulty RemoveDrain: the rows after the first are not drained.
RemoveDrainKept(d, b, e, head, lines1) ==
    Done(update_parse([d EXCEPT !.lines = lines1]),
         ChInsert(<<head>> \o [i \in 1..(e.row - b.row) |-> lines1[b.row + 1 + i].content], b))

\* remove_untracked over several rows, from the drain on: lines1 is
\* self.lines with row b.row joined and row e.row truncated, `head` the text
\* removed from row b.row.
RemoveDrain(d, b, e, head, lines1) ==
    Done(update_parse([d EXCEPT !.lines =
                  SubSeq(lines1, 1, b.row + 1) \o SubSeq(lines1, e.row + 2, Len(lines1))]),
         ChInsert(<<head>> \o [i \in 1..(e.row - b.row) |-> lines1[b.row + 1 + i].content], b))

\* A faulty RemoveAcrossRows: the text recorded as removed from the first
\* row is the whole row.
RemoveAcrossRowsWholeHead(d, b, e, bcontent, econtent) ==
    IF ~slice_from_ok(bcontent, b.column) \/ ~slice_from_ok(econtent, e.column)
    THEN Panic(d)
    ELSE RemoveDrain(d, b, e, bcontent,
             [d.lines EXCEPT
                ![e.row + 1] = [content |-> substring(econtent, 0, e.column),
                                length |-> d.lines[e.row + 1].length],
                ![b.row + 1] = LineFrom(substring(bcontent, 0, b.column)
                                        \o slice_from(econtent, e.column))])

\* remove_untracked over several rows whose first and last contents are
\* bcontent and econtent.
RemoveAcrossRows(d, b, e, bcontent, econtent) ==
    IF ~slice_from_ok(bcontent, b.column) \/ ~slice_from_ok(econtent, e.column)
    THEN Panic(d)
    ELSE RemoveDrain(d, b, e, slice_from(bcontent, b.column),
             [d.lines EXCEPT
                ![e.row + 1] = [content |-> substring(econtent, 0, e.column),
                                length |-> d.lines[e.row + 1].length],
                ![b.row + 1] = LineFrom(substring(bcontent, 0, b.column)
                                        \o slice_from(econtent, e.column))])

remove_untracked(d, range) ==
    IF ~range_valid(d, range) THEN Panic(d)
    ELSE IF range.beginning.row = range.ending.row
    THEN RemoveInRow(d, range.beginning, range.ending,
                     d.lines[range.beginning.row + 1].content)
    ELSE RemoveAcrossRows(d, range.beginning, range.ending,
                          d.lines[range.beginning.row + 1].content,
                          d.lines[range.ending.row + 1].content)

\* A faulty set_anchor_untracked: the inverse carries the new value.
set_anchor_untracked_new_value(d, handle, value) ==
    IF ~anchors_set_ok(d.anchors, handle) THEN Panic(d)
    ELSE Done([d EXCEPT !.anchors = anchors_set(d.anchors, handle, value)],
              ChAnchorSet(handle, value))

set_anchor_untracked(d, handle, value) ==
    IF ~anchors_set_ok(d.anchors, handle) THEN Panic(d)
    ELSE Done([d EXCEPT !.anchors = anchors_set(d.anchors, handle, value)],
              ChAnchorSet(handle, d.anchors.store[handle]))

insert_anchor_untracked(d, handle, value) ==
    Done([d EXCEPT !.anchors = anchors_create(d.anchors, value, handle)],
         ChAnchorRemove(handle))

remove_anchor_untracked(d, handle) ==
    IF anchors_remove_res(d.anchors, handle) # "Ok" THEN Panic(d)
    ELSE Done([d EXCEPT !.anchors = anchors_remove(d.anchors, handle)],
              ChAnchorInsert(handle, d.anchors.store[handle]))

set_indentation_untracked(d, value) ==
    Done([d EXCEPT !.indentation = value], ChIndentation(d.indentation))

\* A faulty set_language_untracked: the parser of the old language is kept.
set_language_untracked_parser_kept(d, language) ==
    Done(update_parse([d EXCEPT !.language = language, !.tree = <<>>]),
         ChLanguage(d.language))

set_language_untracked(d, language) ==
    Done(update_parse([d EXCEPT !.language = language, !.parser = <<>>, !.tree = <<>>]),
         ChLanguage(d.language))

\* Change::apply_untracked
apply_untracked(d, c) ==
    CASE c.type = "Insert" -> insert_untracked(d, c.text, c.position)
      [] c.type = "Remove" -> remove_untracked(d, c.range)
      [] c.type = "AnchorSet" -> set_anchor_untracked(d, c.handle, c.value)
      [] c.type = "AnchorInsert" -> insert_anchor_untracked(d, c.handle, c.value)
      [] c.type = "AnchorRemove" -> remove_anchor_untracked(d, c.handle)
      [] c.type = "IndentationChange" -> set_indentation_untracked(d, c.value)
      [] c.type = "LanguageChange" -> set_language_untracked(d, c.value)

----------------------------------------------------------------------------
\* UndoRedoStacks.  A packet carries, beside its changes, the observable
\* document as it was before the packet's first change was applied (`before`
\* is bookkeeping of the model; the code stores only `changes`).

Snapshot(d) ==
    [lines |-> d.lines, anchors |-> d.anchors.store,
     indentation |-> d.indentation, language |-> d.language]

ChangePacketNew(before) == [changes |-> <<>>, before |-> before]

\* A faulty forget_redos: the redo stack is kept.
keep_redos(d) == d

forget_redos(d) ==
    IF Len(d.redo_stack) > 0 THEN [d EXCEPT !.redo_stack = <<>>] ELSE d

\* A faulty forget_everything: only the redo stack is cleared.
forget_everything_redos_only(d) == forget_redos(d)

forget_everything(d) ==
    LET d1 == forget_redos(d)
    IN  IF Len(d1.undo_stack) > 0 THEN [d1 EXCEPT !.undo_stack = <<>>] ELSE d1

\* A faulty checkpoint: the new packet is pushed at once, empty.
stacks_checkpoint_eager(d) ==
    [forget_redos(d) EXCEPT
        !.undo_stack = Append(forget_redos(d).undo_stack, ChangePacketNew(Snapshot(d)))]

\* A faulty checkpoint: the redo stack is kept.
stacks_checkpoint_keeps_redos(d) == [d EXCEPT !.checkpoint_requested = TRUE]

stacks_checkpoint(d) == [forget_redos(d) EXCEPT !.checkpoint_requested = TRUE]

\* A faulty push_undo: every change starts a packet.
push_undo_new_packet(d, change, before) ==
    [forget_redos(d) EXCEPT
        !.checkpoint_requested = FALSE,
        !.undo_stack = Append(forget_redos(d).undo_stack,
                              [changes |-> <<change>>, before |-> before])]

\* push_undo(change); `before` is the document before the change was applied.
push_undo(d, change, before) ==
    LET d1 == forget_redos(d)
        stack == IF Len(d1.undo_stack) = 0 \/ d1.checkpoint_requested
                 THEN Append(d1.undo_stack, ChangePacketNew(before))
                 ELSE d1.undo_stack
        n == Len(stack)
    IN  [d1 EXCEPT !.checkpoint_requested = FALSE,
                   !.undo_stack = [stack EXCEPT ![n].changes = Append(stack[n].changes, change)]]

----------------------------------------------------------------------------
\* Document: the public, tracked operations.  Each yields the new document,
\* the value returned and panic = TRUE where the call aborts.

Ret(d, res) == [doc |-> d, res |-> res, panic |-> FALSE]

Abort(d) == [doc |-> d, res |-> Res("panic", 0), panic |-> TRUE]

\* `let inverse = <primitive>; self.undo_redo.push_undo(inverse);` where a is
\* the outcome of the primitive applied to d.
Tracked(d, a) ==
    IF ~a.ok THEN [doc |-> d, ok |-> FALSE]
    ELSE [doc |-> push_undo(a.doc, a.inverse, Snapshot(d)), ok |-> TRUE]

\* `for change in anchor_changes { apply_untracked; push_undo }`
RECURSIVE TrackAll(_, _)
TrackNext(t, changes) == IF ~t.ok THEN t ELSE TrackAll(t.doc, changes)

TrackAll(d, changes) ==
    IF Len(changes) = 0 THEN [doc |-> d, ok |-> TRUE]
    ELSE TrackNext(Tracked(d, apply_untracked(d, changes[1])), Tail(changes))

\* The end of a call on document d whose tracked changes came out as t.
Finish(d, t) == IF ~t.ok THEN Abort(d) ELSE Ret(t.doc, Ok)

\* The tail of insert and remove: t1 is the tracked text change, then the
\* anchor changes are applied and tracked.
Rebase(d, t1, anchor_changes) ==
    IF ~t1.ok THEN Abort(d) ELSE Finish(d, TrackAll(t1.doc, anchor_changes))

\* prep_text with exact options.
prep_text(txt) == LineSplit(txt)

\* A faulty InsertMoved: the row is moved, the column is not.
InsertMovedRowOnly(p, range, lines) == AnchorAt(Pos(p.row + (Len(lines) - 1), p.column))

\* A faulty InsertMoved: on the insertion row the column always grows by the
\* length of the last inserted line.
InsertMovedByTail(p, range, lines) ==
    AnchorAt(Pos(p.row + (Len(lines) - 1),
                 IF p.row = range.beginning.row
                 THEN p.column + Len(lines[Len(lines)])
                 ELSE p.column))

\* A faulty InsertMoved: on the insertion row an anchor lands at the end of
\* the last inserted line, however far past the insertion point it was.
InsertMovedToTail(p, range, lines) ==
    AnchorAt(Pos(p.row + (Len(lines) - 1),
                 IF p.row = range.beginning.row
                 THEN IF Len(lines) = 1
                      THEN p.column + Len(lines[1])
                      ELSE Len(lines[Len(lines)])
                 ELSE p.column))

\* A faulty InsertMoved: the column is rebased on every row, not only on the
\* insertion row.
InsertMovedEveryRow(p, range, lines) ==
    AnchorAt(Pos(p.row + (Len(lines) - 1),
                 IF Len(lines) = 1
                 THEN p.column + Len(lines[1])
                 ELSE Len(lines[Len(lines)])
                      + (IF p.column > range.beginning.column
                         THEN p.column - range.beginning.column
                         ELSE 0)))

\* The anchor at position p as insert moves it (p is at or after the
\* insertion point).
InsertMoved(p, range, lines) ==
    AnchorAt(Pos(p.row + (Len(lines) - 1),
                 IF p.row = range.beginning.row
                 THEN IF Len(lines) = 1
                      THEN p.column + Len(lines[1])
                      ELSE Len(lines[Len(lines)])
                           + (IF p.column > range.beginning.column
                              THEN p.column - range.beginning.column
                              ELSE 0)
                 ELSE p.column))

\* A faulty InsertHit: an anchor at the insertion point itself is not moved.
InsertHitAfter(d, range, order) ==
    SelectSeq(order, LAMBDA h : PosLT(range.beginning, d.anchors.store[h].position))

\* The handles of `order` whose anchors insert moves.
InsertHit(d, range, order) ==
    SelectSeq(order, LAMBDA h : PosLE(range.beginning, d.anchors.store[h].position))

\* insert's loop over self.anchors.iter(), visiting the handles in `order`.
InsertAnchorChanges(d, range, lines, order) ==
    [i \in 1..Len(InsertHit(d, range, order)) |->
        ChAnchorSet(InsertHit(d, range, order)[i],
                    InsertMoved(d.anchors.store[InsertHit(d, range, order)[i]].position,
                                range, lines))]

\* The unsigned subtractions of remove's rebasing of an anchor at p, which
\* lies after range.ending: none may go below zero.
RemoveShiftOk(p, range) ==
    /\ range.ending.row >= range.beginning.row
    /\ p.row >= range.ending.row - range.beginning.row
    /\ p.row = range.ending.row =>
          range.beginning.column + p.column >= range.ending.column

\* A faulty RemoveShifted: the row is moved back, the column is kept.
RemoveShiftedRowOnly(p, range) ==
    AnchorAt(Pos(p.row - (range.ending.row - range.beginning.row), p.column))

\* A faulty RemoveShifted: the anchor stays where it was.
RemoveShiftedStale(p, range) == AnchorAt(p)

\* The anchor at p, after range.ending, as remove moves it.
RemoveShifted(p, range) ==
    AnchorAt(Pos(p.row - (range.ending.row - range.beginning.row),
                 IF p.row = range.ending.row
                 THEN range.beginning.column + p.column - range.ending.column
                 ELSE p.column))

\* The anchor at p, after range.beginning, as remove moves it.
RemoveMoved(p, range) ==
    IF PosLT(range.ending, p) THEN RemoveShifted(p, range) ELSE AnchorAt(range.beginning)

\* A faulty RemoveHit: only the anchors after the range are moved.
RemoveHitAfterEnd(d, range, order) ==
    SelectSeq(order, LAMBDA h : PosLT(range.ending, d.anchors.store[h].position))

\* The handles of `order` whose anchors remove moves.
RemoveHit(d, range, order) ==
    SelectSeq(order, LAMBDA h : PosLT(range.beginning, d.anchors.store[h].position))

\* A faulty RemoveAnchorChanges: the loop stops one anchor short.
RemoveAnchorChangesButLast(d, range, order) ==
    [i \in 1..(Len(RemoveHit(d, range, order)) - 1) |->
        ChAnchorSet(RemoveHit(d, range, order)[i],
                    RemoveMoved(d.anchors.store[RemoveHit(d, range, order)[i]].position,
                                range))]

\* remove's loop over self.anchors.iter(), visiting the handles in `order`.
RemoveAnchorChanges(d, range, order) ==
    [i \in 1..Len(RemoveHit(d, range, order)) |->
        ChAnchorSet(RemoveHit(d, range, order)[i],
                    RemoveMoved(d.anchors.store[RemoveHit(d, range, order)[i]].position,
                                range))]

RemoveRebaseOk(d, range) ==
    \A h \in Handles(d) :
        PosLT(range.ending, d.anchors.store[h].position) =>
            RemoveShiftOk(d.anchors.store[h].position, range)

\* Document::remove once the range is resolved.
RemoveRange(d, range, order) ==
    IF RangeEmpty(range) THEN Ret(d, Res("InvalidRange", 0))
    ELSE IF ~RemoveRebaseOk(d, range) THEN Abort(d)
    ELSE Rebase(d, Tracked(d, apply_untracked(d, ChRemove(range))),
                RemoveAnchorChanges(d, range, order))

\* A faulty remove: the range given is not validated.
remove_unvalidated(d, ropt, order) ==
    RemoveRange(d, IF ropt = <<>> THEN selection(d) ELSE ropt[1], order)

\* Document::remove; ropt is options.range.
remove(d, ropt, order) ==
    IF ropt = <<>> THEN RemoveRange(d, selection(d), order)
    ELSE IF ~range_valid(d, ropt[1]) THEN Ret(d, Res("InvalidRange", 0))
    ELSE RemoveRange(d, ropt[1], order)

\* Document::insert from prep_text on: r1 is the outcome of removing the
\* range (Ok with the document untouched when the range is empty).
InsertLines(d, r1, lines, range, order) ==
    IF r1.panic \/ r1.res # Ok THEN r1
    ELSE IF Len(lines) = 0 \/ (Len(lines) = 1 /\ ByteLen(lines[1]) = 0)
    THEN Ret(r1.doc, Res("EmptyString", 0))
    ELSE Rebase(d, Tracked(r1.doc, apply_untracked(r1.doc, ChInsert(lines, range.beginning))),
                InsertAnchorChanges(r1.doc, range, lines, order))

\* A faulty InsertRange: a checkpoint is requested between the removal of
\* the range and the insertion.
InsertRangeSplit(d, txt, range, order) ==
    InsertLines(d,
                IF RangeEmpty(range) THEN Ret(d, Ok)
                ELSE [remove(d, <<range>>, order) EXCEPT !.doc = stacks_checkpoint(@)],
                prep_text(txt), range, order)

\* Document::insert once the range is resolved.
InsertRange(d, txt, range, order) ==
    InsertLines(d,
                IF RangeEmpty(range) THEN Ret(d, Ok) ELSE remove(d, <<range>>, order),
                prep_text(txt), range, order)

\* Document::insert with exact options; ropt is options.range.
insert(d, txt, ropt, order) ==
    IF ropt = <<>> THEN InsertRange(d, txt, selection(d), order)
    ELSE IF ~range_valid(d, ropt[1]) THEN Ret(d, Res("InvalidRange", 0))
    ELSE InsertRange(d, txt, ropt[1], order)

set_anchor(d, handle, value) ==
    IF handle \notin Handles(d) THEN Ret(d, Res("NonexistentAnchor", handle))
    ELSE IF ~position_valid(d, value.position) THEN Ret(d, Res("InvalidPosition", 0))
    ELSE Finish(d, Tracked(d, set_anchor_untracked(d, handle, value)))

\* A faulty get_new_handle: the counter is not advanced.
get_new_handle_stuck(d) == d

\* Anchors::get_new_handle: the document with the counter advanced.
get_new_handle(d) == [d EXCEPT !.anchors.next_id = d.anchors.next_id + 1]

\* A faulty create_anchor: the handle is taken before the position is checked.
create_anchor_handle_first(d, anchor) ==
    IF ~position_valid(d, anchor.position)
    THEN Ret(get_new_handle(d), Res("InvalidPosition", 0))
    ELSE Ret(Tracked(get_new_handle(d),
                     insert_anchor_untracked(get_new_handle(d), d.anchors.next_id, anchor)).doc,
             Res("Ok", d.anchors.next_id))

\* create_anchor: Ok carries the new handle.
create_anchor(d, anchor) ==
    IF ~position_valid(d, anchor.position) THEN Ret(d, Res("InvalidPosition", 0))
    ELSE Ret(Tracked(get_new_handle(d),
                     insert_anchor_untracked(get_new_handle(d), d.anchors.next_id, anchor)).doc,
             Res("Ok", d.anchors.next_id))

set_cursor(d, position) == set_anchor(d, CURSOR, AnchorAt(position))

set_mark(d, position) == set_anchor(d, MARK, AnchorAt(position))

\* `r1?; self.set_mark(position)`
ThenSetMark(r1, position) ==
    IF r1.panic \/ r1.res # Ok THEN r1 ELSE set_mark(r1.doc, position)

\* `r1?; self.set_cursor(position)`
ThenSetCursor(r1, position) ==
    IF r1.panic \/ r1.res # Ok THEN r1 ELSE set_cursor(r1.doc, position)

set_cursor_and_mark(d, position) == ThenSetMark(set_cursor(d, position), position)

set_selection(d, range) ==
    IF ~range_valid(d, range) THEN Ret(d, Res("InvalidRange", 0))
    ELSE ThenSetCursor(set_mark(d, range.beginning), range.ending)

remove_anchor(d, handle) ==
    IF handle \notin Handles(d) THEN Ret(d, Res("NonexistentAnchor", handle))
    ELSE Finish(d, Tracked(d, remove_anchor_untracked(d, handle)))

set_indentation(d, indentation) ==
    Finish(d, Tracked(d, set_indentation_untracked(d, indentation)))

set_language(d, language) ==
    Finish(d, Tracked(d, set_language_untracked(d, language)))

\* The loop of undo_once and redo_once: apply the changes in the order given,
\* collecting the inverses.
RECURSIVE ApplyAll(_, _)
ApplyCons(inverse, rest) ==
    [doc |-> rest.doc, inverses |-> <<inverse>> \o rest.inverses, ok |-> rest.ok]

ApplyNext(d, a, changes) ==
    IF ~a.ok THEN [doc |-> d, inverses |-> <<>>, ok |-> FALSE]
    ELSE ApplyCons(a.inverse, ApplyAll(a.doc, changes))

ApplyAll(d, changes) ==
    IF Len(changes) = 0 THEN [doc |-> d, inverses |-> <<>>, ok |-> TRUE]
    ELSE ApplyNext(d, apply_untracked(d, changes[1]), Tail(changes))

\* A faulty UndoPush: undoing also requests a checkpoint.
UndoPushCheckpointed(d, r) ==
    IF ~r.ok THEN Abort(d)
    ELSE Ret([r.doc EXCEPT !.redo_stack =
                 Append(r.doc.redo_stack, [changes |-> r.inverses, before |-> Snapshot(d)]),
                           !.checkpoint_requested = TRUE],
             Ok)

\* undo_once after the loop: push the redo packet.
UndoPush(d, r) ==
    IF ~r.ok THEN Abort(d)
    ELSE Ret([r.doc EXCEPT !.redo_stack =
                 Append(r.doc.redo_stack, [changes |-> r.inverses, before |-> Snapshot(d)])],
             Ok)

undo_once(d) ==
    IF Len(d.undo_stack) = 0 THEN Ret(d, Res("NoMoreUndos", 0))
    ELSE UndoPush(d, ApplyAll([d EXCEPT !.undo_stack = Front(d.undo_stack)],
                              Reverse(Last(d.undo_stack).changes)))

\* redo_once after the loop: push the undo packet.
RedoPush(d, r) ==
    IF ~r.ok THEN Abort(d)
    ELSE Ret([r.doc EXCEPT !.undo_stack =
                 Append(r.doc.undo_stack, [changes |-> r.inverses, before |-> Snapshot(d)])],
             Ok)

\* A faulty redo_once: the packet is replayed in the order it is stored.
redo_once_unreversed(d) ==
    IF Len(d.redo_stack) = 0 THEN Ret(d, Res("NoMoreRedos", 0))
    ELSE RedoPush(d, ApplyAll([d EXCEPT !.redo_stack = Front(d.redo_stack)],
                              Last(d.redo_stack).changes))

redo_once(d) ==
    IF Len(d.redo_stack) = 0 THEN Ret(d, Res("NoMoreRedos", 0))
    ELSE RedoPush(d, ApplyAll([d EXCEPT !.redo_stack = Front(d.redo_stack)],
                              Reverse(Last(d.redo_stack).changes)))

\* The loop of undo(quantity), from iteration `times`; r is the outcome of
\* undo_once in that iteration.
RECURSIVE UndoLoop(_, _, _)
\* A faulty UndoStep: the error carries the count asked for.
UndoStepAsked(r, times, quantity) ==
    IF r.panic THEN r
    ELSE IF r.res # Ok THEN Ret(r.doc, Res("NoMoreUndos", quantity))
    ELSE UndoLoop(r.doc, times + 1, quantity)

UndoStep(r, times, quantity) ==
    IF r.panic THEN r
    ELSE IF r.res # Ok THEN Ret(r.doc, Res("NoMoreUndos", times))
    ELSE UndoLoop(r.doc, times + 1, quantity)

UndoLoop(d, times, quantity) ==
    IF times >= quantity THEN Ret(d, Res("Ok", quantity))
    ELSE UndoStep(undo_once(d), times, quantity)

undo(d, quantity) == UndoLoop(d, 0, quantity)

RECURSIVE RedoLoop(_, _, _)
RedoStep(r, times, quantity) ==
    IF r.panic THEN r
    ELSE IF r.res # Ok THEN Ret(r.doc, Res("NoMoreRedos", times))
    ELSE RedoLoop(r.doc, times + 1, quantity)

RedoLoop(d, times, quantity) ==
    IF times >= quantity THEN Ret(d, Res("Ok", quantity))
    ELSE RedoStep(redo_once(d), times, quantity)

redo(d, quantity) == RedoLoop(d, 0, quantity)

checkpoint(d) == Ret(stacks_checkpoint(d), Ok)

forget_undo_redo(d) == Ret(forget_everything(d), Ok)

----------------------------------------------------------------------------
\* Document::get_context_at.  A node of the parse tree is a record of its
\* kind, its start and end points (row and byte column, as tree-sitter
\* reports them) and the sequence of its children; `root` is
\* self.tree.root_node().

Node(kind, start_point, end_point, children) ==
    [kind |-> kind, start_point |-> start_point, end_point |-> end_point,
     children |-> children]

\* Document::line
line(d, index) == IF index >= Len(d.lines) THEN <<>> ELSE <<d.lines[index + 1].content>>

\* The unwraps of Chain::push succeed.
ChainPushOk(d, node) ==
    /\ line(d, node.start_point.row) # <<>>
    /\ line(d, node.end_point.row) # <<>>
    /\ byte_index_to_cp(line(d, node.start_point.row)[1], node.start_point.column) # <<>>
    /\ byte_index_to_cp(line(d, node.end_point.row)[1], node.end_point.column) # <<>>

\* The region Chain::push records for a node.
ChainRegion(d, node) ==
    [kind |-> node.kind,
     range |-> Rng(Pos(node.start_point.row,
                       byte_index_to_cp(line(d, node.start_point.row)[1],
                                        node.start_point.column)[1]),
                   Pos(node.end_point.row,
                       byte_index_to_cp(line(d, node.end_point.row)[1],
                                        node.end_point.column)[1]))]

\* The children of node whose range holds the point pt (Point orders by row,
\* then column).
ChildrenAt(node, pt) ==
    {i \in 1..Len(node.children) :
        PosLE(node.children[i].start_point, pt) /\ PosLE(pt, node.children[i].end_point)}

\* A faulty NextChild: the last child holding the point.
NextChildLast(node, pt) == CHOOSE i \in ChildrenAt(node, pt) : \A j \in ChildrenAt(node, pt) : j <= i

\* The child the inner loop of get_context_at descends into.
NextChild(node, pt) == CHOOSE i \in ChildrenAt(node, pt) : \A j \in ChildrenAt(node, pt) : i <= j

\* The outer loop of get_context_at from `node` on: the regions pushed, and
\* ok = FALSE where Chain::push panics.
RECURSIVE ContextLoop(_, _, _)
ContextDescend(region, rest) == [regions |-> <<region>> \o rest.regions, ok |-> rest.ok]

ContextLoop(d, node, pt) ==
    IF ~ChainPushOk(d, node) THEN [regions |-> <<>>, ok |-> FALSE]
    ELSE IF ChildrenAt(node, pt) = {} THEN [regions |-> <<ChainRegion(d, node)>>, ok |-> TRUE]
    ELSE ContextDescend(ChainRegion(d, node),
                        ContextLoop(d, node.children[NextChild(node, pt)], pt))

\* The outcome of a query: the document, the result kind, the chain of an
\* Ok result.
Context(d, kind, regions) ==
    [doc |-> d, res |-> Res(kind, 0), chain |-> regions, panic |-> FALSE]

ContextOf(d, c) ==
    IF ~c.ok THEN [doc |-> d, res |-> Res("panic", 0), chain |-> <<>>, panic |-> TRUE]
    ELSE Context(d, "Ok", c.regions)

\* A faulty get_context_at: the tree is looked for before the position is
\* checked.
get_context_at_tree_first(d, position, root) ==
    IF d.tree = <<>> THEN Context(d, "CannotParse", <<>>)
    ELSE IF ~position_valid(d, position) THEN Context(d, "InvalidPosition", <<>>)
    ELSE ContextOf(d, ContextLoop(d, root,
             Pos(position.row,
                 cp_index_to_byte(d.lines[position.row + 1].content, position.column)[1])))

get_context_at(d, position, root) ==
    IF ~position_valid(d, position) THEN Context(d, "InvalidPosition", <<>>)
    ELSE IF d.tree = <<>> THEN Context(d, "CannotParse", <<>>)
    ELSE ContextOf(d, ContextLoop(d, root,
             Pos(position.row,
                 cp_index_to_byte(d.lines[position.row + 1].content, position.column)[1])))

----------------------------------------------------------------------------
\* Construction.

DocumentNew ==
    [lines |-> <<LineFrom(<<>>)>>,
     anchors |-> AnchorsNew,
     indentation |-> IndSpaces(4),
     undo_stack |-> <<>>,
     redo_stack |-> <<>>,
     checkpoint_requested |-> FALSE,
     language |-> "",
     parser |-> <<>>,
     tree |-> <<>>]

\* Document::from
DocumentFrom(txt) ==
    LET split == LineSplit(txt)
    IN  [DocumentNew EXCEPT !.lines =
            IF txt = <<>> THEN <<LineFrom(<<>>)>>
            ELSE [i \in 1..Len(split) |-> LineFrom(split[i])]]

from_with_language(txt, language) ==
    set_language_untracked(DocumentFrom(txt), language).doc

----------------------------------------------------------------------------
\* The inputs of the calls.

\* "", "a", "e'\na" (U+00E9 takes two bytes).
InsertTexts == {<<>>, <<97>>, <<233, 10, 97>>}

\* "ae'\na"
InitText == <<97, 233, 10, 97>>

Languages == {"rs", "zz"}

Indentations == {IndSpaces(4), IndTabs(2)}

ValidPositions(d) ==
    {p \in [row : 0..(Len(d.lines) - 1), column : 0..MaxLineLen] : position_valid(d, p)}

EndPosition(d) == Pos(Len(d.lines) - 1, d.lines[Len(d.lines)].length)

\* The positions the calls of the state machine are given: column 1 of row
\* 0, the end of the document, and one past the end of row 0 (invalid).
PosArgs(d) == {Pos(0, 1), EndPosition(d), Pos(0, d.lines[1].length + 1)}

\* The ranges they are given: empty, to the end of the document, reversed
\* or out of bounds.
RangeArgs(d) ==
    {Rng(Pos(0, 1), Pos(0, 1)), Rng(Pos(0, 1), EndPosition(d)),
     Rng(EndPosition(d), Pos(0, 0)), Rng(Pos(0, 0), Pos(Len(d.lines), 0))}

RangeOpts(d) == {<<>>} \cup {<<r>> : r \in RangeArgs(d)}

HandleArgs == 0..(MaxHandle + 1)

\* The orders in which a HashMap may iterate its keys.
Orders(d) ==
    LET n == Cardinality(Handles(d))
    IN  {o \in [1..n -> Handles(d)] : \A i, j \in 1..n : o[i] = o[j] => i = j}

Fits(d) ==
    /\ Len(d.lines) <= MaxRows
    /\ \A i \in 1..Len(d.lines) : d.lines[i].length <= MaxLineLen

----------------------------------------------------------------------------
\* The state machine: one action per public call.  `tracked` counts the
\* calls that recorded a change and bounds the run.

Init ==
    /\ doc \in {DocumentNew, from_with_language(InitText, "rs")}
    /\ tracked = 0
    /\ panicked = FALSE

\* A call of insert, remove or a setter, with outcome r.
Call(r) ==
    /\ ~panicked
    /\ tracked < MaxTracked
    /\ Fits(r.doc)
    /\ doc' = r.doc
    /\ tracked' = IF r.doc # doc \/ r.panic THEN tracked + 1 ELSE tracked
    /\ panicked' = r.panic

\* A call of checkpoint, undo, redo or forget_undo_redo, with outcome r.
Step(r) ==
    /\ ~panicked
    /\ doc' = r.doc
    /\ panicked' = r.panic
    /\ UNCHANGED tracked

Insert ==
    \E txt \in InsertTexts, ropt \in RangeOpts(doc), order \in Orders(doc) :
        Call(insert(doc, txt, ropt, order))

Remove ==
    \E ropt \in RangeOpts(doc), order \in Orders(doc) :
        Call(remove(doc, ropt, order))

SetAnchor ==
    \E h \in HandleArgs, p \in PosArgs(doc) : Call(set_anchor(doc, h, AnchorAt(p)))

CreateAnchor ==
    /\ doc.anchors.next_id <= MaxHandle
    /\ \E p \in PosArgs(doc) : Call(create_anchor(doc, AnchorAt(p)))

SetCursor == \E p \in PosArgs(doc) : Call(set_cursor(doc, p))

SetMark == \E p \in PosArgs(doc) : Call(set_mark(doc, p))

SetCursorAndMark == \E p \in PosArgs(doc) : Call(set_cursor_and_mark(doc, p))

SetSelection == \E r \in RangeArgs(doc) : Call(set_selection(doc, r))

RemoveAnchor == \E h \in HandleArgs : Call(remove_anchor(doc, h))

SetIndentation == \E i \in Indentations : Call(set_indentation(doc, i))

SetLanguage == \E l \in Languages : Call(set_language(doc, l))

Checkpoint == Step(checkpoint(doc))

UndoOnce == Step(undo_once(doc))

RedoOnce == Step(redo_once(doc))

Undo == \E n \in 0..(Len(doc.undo_stack) + 1) : Step(undo(doc, n))

Redo == \E n \in 0..(Len(doc.redo_stack) + 1) : Step(redo(doc, n))

ForgetUndoRedo == Step(forget_undo_redo(doc))

Next ==
    \/ Insert
    \/ Remove
    \/ SetAnchor
    \/ CreateAnchor
    \/ SetCursor
    \/ SetMark
    \/ SetCursorAndMark
    \/ SetSelection
    \/ RemoveAnchor
    \/ SetIndentation
    \/ SetLanguage
    \/ Checkpoint
    \/ UndoOnce
    \/ RedoOnce
    \/ Undo
    \/ Redo
    \/ ForgetUndoRedo

Spec == Init /\ [][Next]_vars

----------------------------------------------------------------------------
\* The inputs the properties below quantify over: every position and range
\* of the document, and some outside it.

AnyPositions(d) ==
    ValidPositions(d) \cup {Pos(0, d.lines[1].length + 1), Pos(Len(d.lines), 0)}

AnyRanges(d) == {Rng(b, e) : b \in AnyPositions(d), e \in AnyPositions(d)}

ValidRanges(d) == {r \in AnyRanges(d) : range_valid(d, r)}

AnyRangeOpts(d) == {<<>>} \cup {<<r>> : r \in AnyRanges(d)}

\* The handles in ascending order.
Ascending(d) == CHOOSE o \in Orders(d) : \A i, j \in 1..Len(o) : i < j => o[i] < o[j]

\* Texts already split into lines: "a", "e'\na", "\n", "".
LineTexts == {<<<<97>>>>, <<<<233>>, <<97>>>>, <<<<>>, <<>>>>, <<<<>>>>}

\* Where text inserted at p ends.
InsertedEnd(p, lines) ==
    IF Len(lines) = 1 THEN Pos(p.row, p.column + Len(lines[1]))
    ELSE Pos(p.row + Len(lines) - 1, Len(lines[Len(lines)]))

Succeeded(r) == ~r.panic /\ r.res.kind = "Ok"

----------------------------------------------------------------------------
\* C1: between public calls every stored anchor is at a valid position and
\* the document has at least one line; this holds of every reachable state
\* and of the outcome of every insert and remove called in it, whether the
\* call succeeds or fails.
AnchorsValid(d) ==
    /\ Len(d.lines) >= 1
    /\ \A h \in Handles(d) : position_valid(d, d.anchors.store[h].position)

C1_AnchorsStayValid ==
    /\ AnchorsValid(doc)
    /\ \A ropt \in AnyRangeOpts(doc) :
          /\ AnchorsValid(remove(doc, ropt, Ascending(doc)).doc)
          /\ \A txt \in InsertTexts :
                AnchorsValid(insert(doc, txt, ropt, Ascending(doc)).doc)

\* A document that changed, in which a remove will pull back an anchor
\* lying after the removed range.
C1_Witness ==
    /\ tracked > 0
    /\ \E r \in ValidRanges(doc), h \in Handles(doc) :
          /\ PosLT(r.ending, doc.anchors.store[h].position)
          /\ Succeeded(remove(doc, <<r>>, Ascending(doc)))

----------------------------------------------------------------------------
\* C2: undo_once on a non-empty undo stack pops exactly the top packet and
\* leaves lines, anchors, indentation and language as they were before the
\* packet's first change, moving depth from (u, r) to (u-1, r+1); on an
\* empty stack it returns NoMoreUndos(0) and changes nothing.  redo_once is
\* the mirror image with NoMoreRedos(0).
UndoOnceRestores(d) ==
    IF Len(d.undo_stack) = 0
    THEN undo_once(d) = Ret(d, Res("NoMoreUndos", 0))
    ELSE /\ Succeeded(undo_once(d))
         /\ Snapshot(undo_once(d).doc) = Last(d.undo_stack).before
         /\ undo_once(d).doc.undo_stack = Front(d.undo_stack)
         /\ depth(undo_once(d).doc) = <<Len(d.undo_stack) - 1, Len(d.redo_stack) + 1>>

RedoOnceRestores(d) ==
    IF Len(d.redo_stack) = 0
    THEN redo_once(d) = Ret(d, Res("NoMoreRedos", 0))
    ELSE /\ Succeeded(redo_once(d))
         /\ Snapshot(redo_once(d).doc) = Last(d.redo_stack).before
         /\ redo_once(d).doc.redo_stack = Front(d.redo_stack)
         /\ depth(redo_once(d).doc) = <<Len(d.undo_stack) + 1, Len(d.redo_stack) - 1>>

C2_UndoOnceRestoresPacket == UndoOnceRestores(doc) /\ RedoOnceRestores(doc)

\* Both stacks hold a packet and the top undo packet is composite.
C2_Witness ==
    /\ Len(doc.undo_stack) > 0
    /\ Len(Last(doc.undo_stack).changes) >= 2
    /\ Len(doc.redo_stack) > 0
    /\ Snapshot(undo_once(doc).doc) # Snapshot(doc)

----------------------------------------------------------------------------
\* C3: for every n from 0 to the undo depth, undo(n) followed by redo(n)
\* restores lines, anchors, indentation and language and both depths.
UndoRedoRestores(d, n) ==
    /\ Succeeded(undo(d, n))
    /\ Succeeded(redo(undo(d, n).doc, n))
    /\ Snapshot(redo(undo(d, n).doc, n).doc) = Snapshot(d)
    /\ depth(redo(undo(d, n).doc, n).doc) = depth(d)

C3_UndoThenRedo == \A n \in 0..Len(doc.undo_stack) : UndoRedoRestores(doc, n)

\* Two packets to undo, and undoing them changes the text and the anchors.
C3_Witness ==
    /\ Len(doc.undo_stack) = 2
    /\ undo(doc, 2).doc.lines # doc.lines
    /\ undo(doc, 2).doc.anchors.store # doc.anchors.store

----------------------------------------------------------------------------
\* C4: for each Change variant valid for the document, applying the change
\* and then the Change it returned restores lines (with cached lengths),
\* anchors, indentation and language, and the second application returns
\* the original Change.
RoundTrip(d, c) ==
    /\ apply_untracked(d, c).ok
    /\ apply_untracked(apply_untracked(d, c).doc, apply_untracked(d, c).inverse).ok
    /\ Snapshot(apply_untracked(apply_untracked(d, c).doc,
                                apply_untracked(d, c).inverse).doc) = Snapshot(d)
    /\ apply_untracked(apply_untracked(d, c).doc,
                       apply_untracked(d, c).inverse).inverse = c

C4_InverseRoundTrip ==
    /\ \A p \in ValidPositions(doc) :
          /\ \A t \in LineTexts : RoundTrip(doc, ChInsert(t, p))
          /\ \A h \in Handles(doc) : RoundTrip(doc, ChAnchorSet(h, AnchorAt(p)))
          /\ \A h \in HandleArgs \ Handles(doc) :
                RoundTrip(doc, ChAnchorInsert(h, AnchorAt(p)))
    /\ \A r \in ValidRanges(doc) : RoundTrip(doc, ChRemove(r))
    /\ \A h \in Handles(doc) \ {CURSOR, MARK} : RoundTrip(doc, ChAnchorRemove(h))
    /\ \A i \in Indentations : RoundTrip(doc, ChIndentation(i))
    /\ \A l \in Languages : RoundTrip(doc, ChLanguage(l))

\* A changed document of two rows with a removable anchor, where a Remove
\* across the rows and within a row applies.
C4_Witness ==
    /\ tracked > 0
    /\ Len(doc.lines) = 2
    /\ Handles(doc) \ {CURSOR, MARK} # {}
    /\ apply_untracked(doc, ChRemove(Rng(Pos(0, 1), Pos(1, 1)))).ok
    /\ apply_untracked(doc, ChRemove(Rng(Pos(0, 0), Pos(0, 1)))).inverse
          = ChInsert(<<doc.lines[1].content>>, Pos(0, 0))

----------------------------------------------------------------------------
\* C5: a successful insert of non-empty text at the empty range P-P,
\* followed by a successful remove of the range the text occupies, restores
\* the lines and every anchor.
InsertRemoveRestores(d, txt, p, order) ==
    LET a == insert(d, txt, <<Rng(p, p)>>, order)
        b == remove(a.doc, <<Rng(p, InsertedEnd(p, prep_text(txt)))>>, order)
    IN  (Succeeded(a) /\ Succeeded(b)) =>
            /\ b.doc.lines = d.lines
            /\ b.doc.anchors.store = d.anchors.store

C5_InsertThenRemove ==
    \A p \in ValidPositions(doc), txt \in InsertTexts, order \in Orders(doc) :
        InsertRemoveRestores(doc, txt, p, order)

\* One anchor exactly at P and another after P on the same row, and the
\* insert and the remove both succeed.
C5_Witness ==
    \E p \in ValidPositions(doc), g, h \in Handles(doc) :
        /\ doc.anchors.store[g].position = p
        /\ doc.anchors.store[h].position.row = p.row
        /\ doc.anchors.store[h].position.column > p.column
        /\ Succeeded(insert(doc, <<233, 10, 97>>, <<Rng(p, p)>>, Ascending(doc)))
        /\ Succeeded(remove(insert(doc, <<233, 10, 97>>, <<Rng(p, p)>>, Ascending(doc)).doc,
                            <<Rng(p, InsertedEnd(p, prep_text(<<233, 10, 97>>)))>>,
                            Ascending(doc)))

----------------------------------------------------------------------------
\* C6: two successful inserts separated by one checkpoint occupy two undo
\* packets: the first undo(1) reverts only the second insert, the next
\* undo(1) reverts the first.  With no checkpoint between them they share a
\* packet, and one undo(1) reverts both.
PacketStart(d) ==
    IF Len(d.undo_stack) = 0 \/ d.checkpoint_requested
    THEN Snapshot(d)
    ELSE Last(d.undo_stack).before

\* b is the second insert made after a checkpoint, c made without one.
SplitPackets(d, a, b) ==
    LET u1 == undo(b.doc, 1)
        u2 == undo(u1.doc, 1)
    IN  (Succeeded(a) /\ Succeeded(b)) =>
            /\ Len(b.doc.undo_stack) = Len(a.doc.undo_stack) + 1
            /\ Succeeded(u1)
            /\ Snapshot(u1.doc) = Snapshot(a.doc)
            /\ Succeeded(u2)
            /\ Snapshot(u2.doc) = PacketStart(d)

SharedPacket(d, a, c) ==
    LET u1 == undo(c.doc, 1)
    IN  (Succeeded(a) /\ Succeeded(c)) =>
            /\ Len(c.doc.undo_stack) = Len(a.doc.undo_stack)
            /\ Succeeded(u1)
            /\ Snapshot(u1.doc) = PacketStart(d)

TwoInserts(d, t1, r1, t2, r2, order) ==
    LET a == insert(d, t1, r1, order)
        b == insert(checkpoint(a.doc).doc, t2, r2, order)
        c == insert(a.doc, t2, r2, order)
    IN  Succeeded(a) => SplitPackets(d, a, b) /\ SharedPacket(d, a, c)

C6_CheckpointSplitsPackets ==
    \A t1, t2 \in InsertTexts \ {<<>>}, r1 \in RangeOpts(doc) :
        TwoInserts(doc, t1, r1, t2, <<>>, Ascending(doc))

\* Two inserts were made with a checkpoint between them: two packets, each
\* beginning with the inverse of an insert.
C6_Witness ==
    /\ Len(doc.undo_stack) = 2
    /\ \A i \in 1..2 : doc.undo_stack[i].changes[1].type = "Remove"
    /\ text(undo(doc, 1).doc) # text(doc)
    /\ text(undo(doc, 2).doc) # text(undo(doc, 1).doc)

----------------------------------------------------------------------------
\* C7: after any successful insert, remove, set_anchor, set_cursor,
\* set_mark, set_selection, create_anchor, remove_anchor, set_indentation
\* or set_language, the redo stack is empty and the undo stack is not.
StacksAfter(r) ==
    Succeeded(r) => Len(r.doc.redo_stack) = 0 /\ Len(r.doc.undo_stack) > 0

C7_MutationClearsRedo ==
    /\ \A ropt \in RangeOpts(doc), order \in Orders(doc) :
          /\ StacksAfter(remove(doc, ropt, order))
          /\ \A txt \in InsertTexts : StacksAfter(insert(doc, txt, ropt, order))
    /\ \A p \in AnyPositions(doc) :
          /\ \A h \in HandleArgs : StacksAfter(set_anchor(doc, h, AnchorAt(p)))
          /\ StacksAfter(set_cursor(doc, p))
          /\ StacksAfter(set_mark(doc, p))
          /\ StacksAfter(create_anchor(doc, AnchorAt(p)))
    /\ \A r \in AnyRanges(doc) : StacksAfter(set_selection(doc, r))
    /\ \A h \in HandleArgs \ {CURSOR, MARK} : StacksAfter(remove_anchor(doc, h))
    /\ \A i \in Indentations : StacksAfter(set_indentation(doc, i))
    /\ \A l \in Languages : StacksAfter(set_language(doc, l))

\* The redo stack holds a packet, and mutating calls succeed.
C7_Witness ==
    /\ Len(doc.redo_stack) > 0
    /\ Succeeded(set_indentation(doc, IndTabs(2)))
    /\ Succeeded(insert(doc, <<97>>, <<>>, Ascending(doc)))
    /\ Len(insert(doc, <<97>>, <<>>, Ascending(doc)).doc.redo_stack) = 0

----------------------------------------------------------------------------
\* C8: with depths (u, r), undo(n) returns Ok(n) and leaves (u-n, r+n) when
\* n <= u; when n > u it returns NoMoreUndos(u) with all u packets undone,
\* depths (0, r+u), the document being the one undo(u) leaves.  redo(n) is
\* symmetric with NoMoreRedos.
UndoCounts(d, n) ==
    IF n <= Len(d.undo_stack)
    THEN /\ ~undo(d, n).panic
         /\ undo(d, n).res = Res("Ok", n)
         /\ depth(undo(d, n).doc) = <<Len(d.undo_stack) - n, Len(d.redo_stack) + n>>
    ELSE /\ ~undo(d, n).panic
         /\ undo(d, n).res = Res("NoMoreUndos", Len(d.undo_stack))
         /\ depth(undo(d, n).doc) = <<0, Len(d.redo_stack) + Len(d.undo_stack)>>
         /\ undo(d, n).doc = undo(d, Len(d.undo_stack)).doc

RedoCounts(d, n) ==
    IF n <= Len(d.redo_stack)
    THEN /\ ~redo(d, n).panic
         /\ redo(d, n).res = Res("Ok", n)
         /\ depth(redo(d, n).doc) = <<Len(d.undo_stack) + n, Len(d.redo_stack) - n>>
    ELSE /\ ~redo(d, n).panic
         /\ redo(d, n).res = Res("NoMoreRedos", Len(d.redo_stack))
         /\ depth(redo(d, n).doc) = <<Len(d.undo_stack) + Len(d.redo_stack), 0>>
         /\ redo(d, n).doc = redo(d, Len(d.redo_stack)).doc

C8_UndoRedoCounts ==
    /\ \A n \in 0..(Len(doc.undo_stack) + 2) : UndoCounts(doc, n)
    /\ \A n \in 0..(Len(doc.redo_stack) + 2) : RedoCounts(doc, n)

\* One packet on each stack, and more steps asked for than there are.
C8_Witness ==
    /\ Len(doc.undo_stack) = 1
    /\ Len(doc.redo_stack) = 1
    /\ undo(doc, 3).res = Res("NoMoreUndos", 1)
    /\ redo(doc, 3).res = Res("NoMoreRedos", 1)
    /\ undo(doc, 3).doc # doc

----------------------------------------------------------------------------
\* C9: remove_anchor with a reserved handle (0 or 1) returns
\* CannotRemoveAnchor without aborting and leaves the anchor store and the
\* stacks unchanged; with a handle that does not exist it returns
\* NonexistentAnchor.
ReservedRefused(d, h) ==
    /\ ~remove_anchor(d, h).panic
    /\ remove_anchor(d, h).res.kind = "CannotRemoveAnchor"
    /\ remove_anchor(d, h).doc = d

AbsentRefused(d, h) ==
    /\ ~remove_anchor(d, h).panic
    /\ remove_anchor(d, h).res = Res("NonexistentAnchor", h)
    /\ remove_anchor(d, h).doc = d

C9_RemoveAnchorRefuses ==
    /\ \A h \in {CURSOR, MARK} : ReservedRefused(doc, h)
    /\ \A h \in HandleArgs \ Handles(doc) : AbsentRefused(doc, h)

\* The half of C9 about handles that do not exist.
C9_AbsentHandleRefused == \A h \in HandleArgs \ Handles(doc) : AbsentRefused(doc, h)

----------------------------------------------------------------------------
\* C10: no path from insert, remove, set_anchor, create_anchor,
\* set_selection, undo or redo violates a fatal precondition of an
\* untracked primitive or takes an unsigned subtraction of remove's anchor
\* rebasing below zero, whatever ranges, positions, handles and counts the
\* caller supplies.
C10_NoFatalPrecondition ==
    /\ \A ropt \in AnyRangeOpts(doc) :
          /\ ~remove(doc, ropt, Ascending(doc)).panic
          /\ \A txt \in InsertTexts : ~insert(doc, txt, ropt, Ascending(doc)).panic
    /\ \A ropt \in RangeOpts(doc), order \in Orders(doc) :
          /\ ~remove(doc, ropt, order).panic
          /\ \A txt \in InsertTexts : ~insert(doc, txt, ropt, order).panic
    /\ \A p \in AnyPositions(doc) :
          /\ \A h \in HandleArgs : ~set_anchor(doc, h, AnchorAt(p)).panic
          /\ ~create_anchor(doc, AnchorAt(p)).panic
    /\ \A r \in AnyRanges(doc) : ~set_selection(doc, r).panic
    /\ \A n \in 0..(Len(doc.undo_stack) + 1) : ~undo(doc, n).panic
    /\ \A n \in 0..(Len(doc.redo_stack) + 1) : ~redo(doc, n).panic

\* A remove across rows succeeds with an anchor after the range on its last
\* row (the column subtraction), and there are packets to undo and redo.
C10_Witness ==
    /\ Len(doc.undo_stack) > 0
    /\ Len(doc.redo_stack) > 0
    /\ \E r \in ValidRanges(doc), h \in Handles(doc) :
          /\ r.beginning.row < r.ending.row
          /\ doc.anchors.store[h].position.row = r.ending.row
          /\ PosLT(r.ending, doc.anchors.store[h].position)
          /\ Succeeded(remove(doc, <<r>>, Ascending(doc)))

----------------------------------------------------------------------------
\* C11: a public call that fails input validation returns its error kind
\* and leaves the whole document as it was: lines, anchors, indentation,
\* language, both stacks, the pending-checkpoint flag and the handle counter.
InvalidRangeRefused(d, r) ==
    /\ remove(d, <<r>>, Ascending(d)) = Ret(d, Res("InvalidRange", 0))
    /\ set_selection(d, r) = Ret(d, Res("InvalidRange", 0))
    /\ \A txt \in InsertTexts :
          insert(d, txt, <<r>>, Ascending(d)) = Ret(d, Res("InvalidRange", 0))

EmptyRemoveRefused(d) ==
    /\ \A p \in ValidPositions(d) :
          remove(d, <<Rng(p, p)>>, Ascending(d)) = Ret(d, Res("InvalidRange", 0))
    /\ RangeEmpty(selection(d)) =>
          remove(d, <<>>, Ascending(d)) = Ret(d, Res("InvalidRange", 0))

BadAnchorRefused(d, p) ==
    /\ \A h \in HandleArgs \ Handles(d) :
          set_anchor(d, h, AnchorAt(p)) = Ret(d, Res("NonexistentAnchor", h))
    /\ ~position_valid(d, p) =>
          /\ \A h \in Handles(d) :
                set_anchor(d, h, AnchorAt(p)) = Ret(d, Res("InvalidPosition", 0))
          /\ create_anchor(d, AnchorAt(p)) = Ret(d, Res("InvalidPosition", 0))

C11_FailedValidationChangesNothing ==
    /\ \A r \in AnyRanges(doc) \ ValidRanges(doc) : InvalidRangeRefused(doc, r)
    /\ EmptyRemoveRefused(doc)
    /\ \A p \in AnyPositions(doc) : BadAnchorRefused(doc, p)

\* Both stacks hold packets, cursor equals mark and
\* some handle is absent: every listed failure can happen here.
C11_Witness ==
    /\ Len(doc.undo_stack) > 0
    /\ Len(doc.redo_stack) > 0
    /\ RangeEmpty(selection(doc))
    /\ HandleArgs \ Handles(doc) # {}
    /\ remove(doc, <<>>, Ascending(doc)).res.kind = "InvalidRange"
    /\ create_anchor(doc, AnchorAt(Pos(Len(doc.lines), 0))).res.kind = "InvalidPosition"

----------------------------------------------------------------------------
\* C12: when insert returns EmptyString the document is unchanged (lines,
\* anchors and both depths are as before the call), for every resolved
\* range, a non-empty explicit range or selection included.
EmptyInsertUnchanged(d, r) ==
    r.res.kind = "EmptyString" =>
        /\ ~r.panic
        /\ r.doc.lines = d.lines
        /\ r.doc.anchors.store = d.anchors.store
        /\ depth(r.doc) = depth(d)

C12_EmptyInsertChangesNothing ==
    \A ropt \in AnyRangeOpts(doc) :
        EmptyInsertUnchanged(doc, insert(doc, <<>>, ropt, Ascending(doc)))

\* The part of C12 about empty resolved ranges.
C12_EmptyInsertAtEmptyRange ==
    /\ \A p \in ValidPositions(doc) :
          insert(doc, <<>>, <<Rng(p, p)>>, Ascending(doc)) = Ret(doc, Res("EmptyString", 0))
    /\ RangeEmpty(selection(doc)) =>
          insert(doc, <<>>, <<>>, Ascending(doc)) = Ret(doc, Res("EmptyString", 0))

----------------------------------------------------------------------------
\* C13: the handles successful create_anchor calls return are strictly
\* increasing from 2, never 0 or 1, never one returned before (even if that
\* anchor was removed or its creation undone) and never one that undo or
\* redo re-creates.  Every handle in the store or in a recorded change lies
\* below the counter; no public call lowers the counter; create_anchor
\* returns the counter and advances it.
StackHandles(stack) ==
    UNION {{stack[i].changes[j].handle :
               j \in {k \in 1..Len(stack[i].changes) :
                        stack[i].changes[k].type
                            \in {"AnchorSet", "AnchorInsert", "AnchorRemove"}}} :
           i \in 1..Len(stack)}

KnownHandles(d) == Handles(d) \cup StackHandles(d.undo_stack) \cup StackHandles(d.redo_stack)

CounterKept(d, r) == ~r.panic => r.doc.anchors.next_id >= d.anchors.next_id

FreshHandle(d, r) ==
    Succeeded(r) =>
        /\ r.res.n = d.anchors.next_id
        /\ r.res.n >= 2
        /\ r.res.n \notin KnownHandles(d)
        /\ r.res.n \in Handles(r.doc)
        /\ r.doc.anchors.next_id = r.res.n + 1

C13_HandlesNeverReused ==
    /\ doc.anchors.next_id >= 2
    /\ \A h \in KnownHandles(doc) : h < doc.anchors.next_id
    /\ \A p \in AnyPositions(doc) :
          /\ FreshHandle(doc, create_anchor(doc, AnchorAt(p)))
          /\ \A h \in HandleArgs : CounterKept(doc, set_anchor(doc, h, AnchorAt(p)))
    /\ \A h \in HandleArgs : CounterKept(doc, remove_anchor(doc, h))
    /\ \A ropt \in RangeOpts(doc) :
          /\ CounterKept(doc, remove(doc, ropt, Ascending(doc)))
          /\ \A txt \in InsertTexts : CounterKept(doc, insert(doc, txt, ropt, Ascending(doc)))
    /\ \A n \in 0..(Len(doc.undo_stack) + 1) : CounterKept(doc, undo(doc, n))
    /\ \A n \in 0..(Len(doc.redo_stack) + 1) : CounterKept(doc, redo(doc, n))
    /\ CounterKept(doc, forget_undo_redo(doc))
    /\ CounterKept(doc, checkpoint(doc))

\* An anchor was created and its creation undone: handle 2 is no longer in
\* the store, redo would re-create it, and the next create_anchor succeeds.
C13_Witness ==
    /\ 2 \notin Handles(doc)
    /\ 2 \in StackHandles(doc.redo_stack)
    /\ Succeeded(create_anchor(doc, AnchorAt(Pos(0, 0))))
    /\ create_anchor(doc, AnchorAt(Pos(0, 0))).res.n = 3

----------------------------------------------------------------------------
\* C14: the anchor store always contains handle 0 (cursor) and handle 1
\* (mark): in every reachable state, and after remove_anchor of any handle
\* and undo or redo of any count called in it.
HasCursorAndMark(d) == {CURSOR, MARK} \subseteq Handles(d)

C14_CursorAndMarkStay ==
    /\ HasCursorAndMark(doc)
    /\ \A h \in HandleArgs : HasCursorAndMark(remove_anchor(doc, h).doc)
    /\ \A n \in 0..(Len(doc.undo_stack) + 1) : HasCursorAndMark(undo(doc, n).doc)
    /\ \A n \in 0..(Len(doc.redo_stack) + 1) : HasCursorAndMark(redo(doc, n).doc)

\* An anchor was created and then removed by remove_anchor, and the removal
\* can be undone.
C14_Witness ==
    /\ doc.anchors.next_id > 2
    /\ Handles(doc) = {CURSOR, MARK}
    /\ Len(doc.undo_stack) > 0
    /\ Last(Last(doc.undo_stack).changes).type = "AnchorInsert"
    /\ 2 \in Handles(undo_once(doc).doc)

----------------------------------------------------------------------------
\* C15: every line's cached length equals the number of codepoints of its
\* content: in every reachable state (which insert, remove, undo and redo
\* produce), and after the insert and remove primitives and their inverses
\* applied in it, each codepoint of a multi-codepoint emoji counting as one
\* column.
LengthsCached(d) == \A i \in 1..Len(d.lines) : d.lines[i].length = Len(d.lines[i].content)

\* U+1F468 U+200D U+1F469: one emoji of three codepoints.
EmojiLine == <<128104, 8205, 128105>>

LengthsCachedAfter(d, c) ==
    /\ apply_untracked(d, c).ok
    /\ LengthsCached(apply_untracked(d, c).doc)
    /\ LengthsCached(apply_untracked(apply_untracked(d, c).doc,
                                     apply_untracked(d, c).inverse).doc)

\* Insert the emoji at p, then remove its middle codepoint.
EmojiSplit(d, p) ==
    LET a == insert_untracked(d, <<EmojiLine>>, p).doc
        b == remove_untracked(a, Rng(Pos(p.row, p.column + 1), Pos(p.row, p.column + 2))).doc
    IN  /\ a.lines[p.row + 1].length = d.lines[p.row + 1].length + 3
        /\ b.lines[p.row + 1].length = d.lines[p.row + 1].length + 2
        /\ LengthsCached(a)
        /\ LengthsCached(b)

C15_CachedLengths ==
    /\ LengthsCached(doc)
    /\ \A p \in ValidPositions(doc) :
          /\ \A t \in LineTexts : LengthsCachedAfter(doc, ChInsert(t, p))
          /\ EmojiSplit(doc, p)
    /\ \A r \in ValidRanges(doc) : LengthsCachedAfter(doc, ChRemove(r))

\* A changed document of two rows holding a two-byte codepoint, with
\* packets to undo and to redo, where a multi-line insert in mid-row applies.
C15_Witness ==
    /\ Len(doc.undo_stack) > 0
    /\ Len(doc.redo_stack) > 0
    /\ Len(doc.lines) = 2
    /\ \E i \in 1..2 : \E j \in 1..Len(doc.lines[i].content) : doc.lines[i].content[j] = 233
    /\ doc.lines[1].length >= 2
    /\ apply_untracked(doc, ChInsert(<<<<233>>, <<97>>>>, Pos(0, 1))).doc.lines[2].length
          = doc.lines[1].length

----------------------------------------------------------------------------
\* C16: Document::from(d.text()) has exactly the lines of d, so
\* from(text()).text() = text(); no stored line contains a line feed, the
\* empty text yields one empty line, and a leading or trailing newline
\* yields an extra empty line.  Checked of every reachable document and of
\* the documents that inserts with leading and trailing newlines make of it.
NoLineFeed(d) ==
    \A i \in 1..Len(d.lines) : \A j \in 1..Len(d.lines[i].content) : d.lines[i].content[j] # 10

TextRoundTrip(d) ==
    /\ DocumentFrom(text(d)).lines = d.lines
    /\ text(DocumentFrom(text(d))) = text(d)
    /\ NoLineFeed(d)

\* "\n", "a\n", "\na", "\n\n"
NewlineTexts == {<<10>>, <<97, 10>>, <<10, 97>>, <<10, 10>>}

----------------------------------------------------------------------------
\* C17: text_range returns None exactly when the range is not range_valid;
\* for valid positions a <= b <= c, text_range(a, b) followed by
\* text_range(b, c) is text_range(a, c); text_range from (0, 0) to the end
\* of the last line is text(); the result holds exactly
\* ending.row - beginning.row newlines.  Checked of every reachable
\* document and of the same document with two more rows inserted.
RowsOf(d) == 0..(Len(d.lines) - 1)

PositionsOf(d) ==
    UNION {{Pos(r, c) : c \in 0..d.lines[r + 1].length} : r \in RowsOf(d)}

Newlines(s) == Cardinality({i \in 1..Len(s) : s[i] = 10})

TextRangeSplits(d, a, b, c) ==
    (PosLE(a, b) /\ PosLE(b, c)) =>
        text_range(d, Rng(a, b))[1] \o text_range(d, Rng(b, c))[1]
            = text_range(d, Rng(a, c))[1]

TextRangeRight(d) ==
    /\ \A r \in AnyRanges(d) : (text_range(d, r) = <<>>) <=> ~range_valid(d, r)
    /\ \A a, c \in PositionsOf(d) :
          /\ (text_range(d, Rng(a, c)) = <<>>) <=> ~range_valid(d, Rng(a, c))
          /\ PosLE(a, c) =>
                /\ Newlines(text_range(d, Rng(a, c))[1]) = c.row - a.row
                /\ \A b \in PositionsOf(d) : TextRangeSplits(d, a, b, c)
    /\ text_range(d, Rng(Pos(0, 0), EndPosition(d))) = <<text(d)>>

C17_TextRange ==
    /\ TextRangeRight(doc)
    /\ TextRangeRight(insert_untracked(doc, <<<<233>>, <<>>, <<97>>>>, Pos(0, 0)).doc)

\* A changed document of two rows; with the two rows inserted, a range
\* crosses rows that lie strictly between its first and its last.
C17_Witness ==
    /\ tracked > 0
    /\ Len(doc.lines) = 2
    /\ doc.lines[2].length > 0
    /\ LET d == insert_untracked(doc, <<<<233>>, <<>>, <<97>>>>, Pos(0, 0)).doc
       IN  /\ Len(d.lines) = 4
           /\ text_range(d, Rng(Pos(0, 1), Pos(3, 1)))
                 = <<<<10, 10>> \o d.lines[3].content \o <<10>> \o Take(d.lines[4].content, 1)>>

----------------------------------------------------------------------------
\* C18: after a successful insert of text (k lines once split) at an empty
\* resolved range P, text() is the old text before P, the inserted lines
\* joined by newline, and the old text from P on; the change recorded for
\* undo is Remove from P to (P.row + k - 1, c), c being P.column plus the
\* length of the text when k = 1 and the length of the last line when k > 1.

\* The changes a call recorded on the undo stack: r is its outcome on d.
Recorded(d, r) ==
    IF Len(r.doc.undo_stack) > Len(d.undo_stack)
    THEN Last(r.doc.undo_stack).changes
    ELSE SubSeq(Last(r.doc.undo_stack).changes,
                Len(Last(d.undo_stack).changes) + 1,
                Len(Last(r.doc.undo_stack).changes))

JoinStrings(ls) == JoinLines([i \in 1..Len(ls) |-> LineFrom(ls[i])])

InsertedSpan(p, lines) ==
    Rng(p, Pos(p.row + Len(lines) - 1,
               IF Len(lines) = 1 THEN p.column + Len(lines[1]) ELSE Len(lines[Len(lines)])))

InsertPlacesText(d, txt, p, r) ==
    Succeeded(r) =>
        /\ text(r.doc) = text_range(d, Rng(Pos(0, 0), p))[1]
                            \o JoinStrings(prep_text(txt))
                            \o text_range(d, Rng(p, EndPosition(d)))[1]
        /\ Recorded(d, r)[1] = ChRemove(InsertedSpan(p, prep_text(txt)))

C18_InsertPlacesText ==
    /\ \A p \in ValidPositions(doc), txt \in InsertTexts \cup NewlineTexts :
          InsertPlacesText(doc, txt, p, insert(doc, txt, <<Rng(p, p)>>, Ascending(doc)))
    /\ RangeEmpty(selection(doc)) =>
          \A txt \in InsertTexts \cup NewlineTexts :
             InsertPlacesText(doc, txt, cursor(doc).position,
                              insert(doc, txt, <<>>, Ascending(doc)))

\* Cursor and mark sit together in mid-row of a changed document whose top
\* packet is open, and one-line and two-line inserts succeed there.
C18_Witness ==
    /\ Len(doc.undo_stack) > 0
    /\ ~doc.checkpoint_requested
    /\ RangeEmpty(selection(doc))
    /\ cursor(doc).position.column > 0
    /\ cursor(doc).position.column < doc.lines[cursor(doc).position.row + 1].length
    /\ Succeeded(insert(doc, <<97>>, <<>>, Ascending(doc)))
    /\ Len(insert(doc, <<233, 10, 97>>, <<>>, Ascending(doc)).doc.lines) = Len(doc.lines) + 1

----------------------------------------------------------------------------
\* C19: after a successful remove of a valid non-empty range R, text() is
\* the old text before R.beginning followed by the old text from R.ending
\* on, the number of lines drops by R.ending.row - R.beginning.row, and the
\* change recorded for undo is Insert at R.beginning whose lines, joined by
\* newline, are the old text_range(R).
RemoveCutsText(d, range, r) ==
    Succeeded(r) =>
        /\ text(r.doc) = text_range(d, Rng(Pos(0, 0), range.beginning))[1]
                            \o text_range(d, Rng(range.ending, EndPosition(d)))[1]
        /\ Len(r.doc.lines) = Len(d.lines) - (range.ending.row - range.beginning.row)
        /\ Recorded(d, r)[1].type = "Insert"
        /\ Recorded(d, r)[1].position = range.beginning
        /\ JoinStrings(Recorded(d, r)[1].text) = text_range(d, range)[1]

\* The ranges of d with at least one row strictly between their ends.
TallRanges(d) ==
    {r \in {Rng(a, c) : a \in PositionsOf(d), c \in PositionsOf(d)} :
        r.ending.row >= r.beginning.row + 2}

\* The document with the lines "e'", "", "a" inserted at its start as insert
\* inserts lines (the text change, then the anchor changes): two more rows.
GrownBy(d, lines, range) ==
    Rebase(d, Tracked(d, apply_untracked(d, ChInsert(lines, range.beginning))),
           InsertAnchorChanges(d, range, lines, Ascending(d))).doc

Grown(d) == GrownBy(d, <<<<233>>, <<>>, <<97>>>>, Rng(Pos(0, 0), Pos(0, 0)))

RemoveCutsAll(d, ranges) ==
    \A range \in ranges :
        /\ RemoveCutsText(d, range, remove(d, <<range>>, Ascending(d)))
        /\ ~RangeEmpty(range) => Succeeded(remove(d, <<range>>, Ascending(d)))

C19_RemoveCutsText ==
    /\ RemoveCutsAll(doc, ValidRanges(doc))
    /\ RemoveCutsAll(Grown(doc), TallRanges(Grown(doc)))
    /\ RemoveCutsText(doc, selection(doc), remove(doc, <<>>, Ascending(doc)))

\* A changed document of two rows with a two-byte codepoint in row 0 and a
\* selection across the rows; removing it and removing within row 0
\* succeed, and so does a removal across all four rows of the grown document.
C19_Witness ==
    /\ Len(doc.undo_stack) > 0
    /\ Len(doc.lines) = 2
    /\ selection(doc).beginning.row < selection(doc).ending.row
    /\ 233 \in {doc.lines[1].content[j] : j \in 1..Len(doc.lines[1].content)}
    /\ Succeeded(remove(doc, <<>>, Ascending(doc)))
    /\ Succeeded(remove(doc, <<Rng(Pos(0, 0), Pos(0, 1))>>, Ascending(doc)))
    /\ Len(Grown(doc).lines) = 4
    /\ Len(remove(Grown(doc), <<Rng(Pos(0, 1), Pos(3, 0))>>, Ascending(doc)).doc.lines) = 1

----------------------------------------------------------------------------
\* C20: after a successful insert of k lines at an empty range P, t being
\* the length of the last inserted line, an anchor before P is unchanged
\* and an anchor on a later row has its row increased by k - 1 and its
\* column unchanged.  An anchor on row P.row at or after P has its row
\* increased by k - 1; its column is increased by t when k = 1, and becomes
\* t plus its distance from P.column when k > 1.

\* Where the claim as stated puts an anchor that was at q.
ShiftedByTail(q, p, lines) ==
    IF q.row = p.row /\ PosLE(p, q)
    THEN Pos(q.row + Len(lines) - 1, q.column + Len(lines[Len(lines)]))
    ELSE IF q.row > p.row THEN Pos(q.row + Len(lines) - 1, q.column)
    ELSE q

\* Where an anchor that was at q is put.
ShiftedPastInsert(q, p, lines) ==
    IF q.row = p.row /\ PosLE(p, q)
    THEN Pos(q.row + Len(lines) - 1,
             IF Len(lines) = 1 THEN q.column + Len(lines[1])
             ELSE Len(lines[Len(lines)]) + (q.column - p.column))
    ELSE IF q.row > p.row THEN Pos(q.row + Len(lines) - 1, q.column)
    ELSE q

AnchorsShiftedByTail(d, txt, p, r) ==
    Succeeded(r) =>
        /\ Handles(r.doc) = Handles(d)
        /\ \A h \in Handles(d) :
              r.doc.anchors.store[h].position
                  = ShiftedByTail(d.anchors.store[h].position, p, prep_text(txt))

AnchorsShiftedPastInsert(d, txt, p, r) ==
    Succeeded(r) =>
        /\ Handles(r.doc) = Handles(d)
        /\ \A h \in Handles(d) :
              r.doc.anchors.store[h].position
                  = ShiftedPastInsert(d.anchors.store[h].position, p, prep_text(txt))

C20_InsertShiftsAnchors ==
    \A p \in ValidPositions(doc), txt \in InsertTexts \cup NewlineTexts,
       order \in Orders(doc) :
        AnchorsShiftedPastInsert(doc, txt, p, insert(doc, txt, <<Rng(p, p)>>, order))

\* C20 as stated: on the insertion row the column is increased by t,
\* whatever k and the insertion column are.
C20_AsStated ==
    \A p \in ValidPositions(doc), txt \in InsertTexts \cup NewlineTexts,
       order \in Orders(doc) :
        AnchorsShiftedByTail(doc, txt, p, insert(doc, txt, <<Rng(p, p)>>, order))

\* One anchor before P, one at P in mid-row and one on a later row, and a
\* two-line insert at P succeeds.
C20_Witness ==
    \E p \in ValidPositions(doc), f, g, h \in Handles(doc) :
        /\ p.column > 0
        /\ PosLT(doc.anchors.store[f].position, p)
        /\ doc.anchors.store[g].position = p
        /\ doc.anchors.store[h].position.row > p.row
        /\ Succeeded(insert(doc, <<233, 10, 97>>, <<Rng(p, p)>>, Ascending(doc)))

----------------------------------------------------------------------------
\* C21: the scenario "create an anchor at (0,2) in AAA\nBBB, insert Z\nY at
\* (0,0)".  The document of the scenario, the anchor created in it and the
\* insert of the two lines "Z" and "Y" at (0,0):
ScenarioDocument ==
    [DocumentNew EXCEPT !.lines = <<LineFrom(<<65, 65, 65>>), LineFrom(<<66, 66, 66>>)>>]

ScenarioLines == <<<<90>>, <<89>>>>

ScenarioInsert(d, order) ==
    InsertLines(d, Ret(d, Ok), ScenarioLines, Rng(Pos(0, 0), Pos(0, 0)), order)

\* An anchor that was at (0,2) is at position q once the two lines are
\* inserted at (0,0): in the scenario itself, whatever the iteration order,
\* and in document d for every anchor of d at (0,2).
ScenarioLandsAt(q) ==
    LET created == create_anchor(ScenarioDocument, AnchorAt(Pos(0, 2)))
    IN  /\ Succeeded(created)
        /\ \A order \in Orders(created.doc) :
              LET r == ScenarioInsert(created.doc, order)
              IN  /\ Succeeded(r)
                  /\ [i \in 1..Len(r.doc.lines) |-> r.doc.lines[i].content]
                        = <<<<90>>, <<89, 65, 65, 65>>, <<66, 66, 66>>>>
                  /\ r.doc.anchors.store[created.res.n].position = q

LandsAt(d, q) ==
    \A order \in Orders(d), h \in Handles(d) :
        d.anchors.store[h].position = Pos(0, 2) =>
            LET r == ScenarioInsert(d, order)
            IN  Succeeded(r) /\ r.doc.anchors.store[h].position = q

\* C21 (as the code has it): the anchor lands at (1,3), two codepoints past
\* the end of the inserted "Y", as it was two codepoints past (0,0).
C21_AnchorLandsPastInsert == ScenarioLandsAt(Pos(1, 3)) /\ LandsAt(doc, Pos(1, 3))

\* C21 as stated: the anchor lands at (1,1).
C21_AsStated == ScenarioLandsAt(Pos(1, 1)) /\ LandsAt(doc, Pos(1, 1))

\* A two-row document holds a created anchor at (0,2), and the insert of the
\* two lines at (0,0) succeeds.
C21_Witness ==
    /\ Len(doc.lines) = 2
    /\ \E h \in Handles(doc) \ {CURSOR, MARK} : doc.anchors.store[h].position = Pos(0, 2)
    /\ Succeeded(ScenarioInsert(doc, Ascending(doc)))

----------------------------------------------------------------------------
\* C22: after a successful remove of the range (b, e), an anchor strictly
\* after e has its row reduced by e.row - b.row and, if it was on row e.row,
\* its column becomes b.column + column - e.column (otherwise its column is
\* unchanged); an anchor strictly between b and e is moved to b; an anchor
\* at or before b is unchanged.  (An anchor at e itself is moved to b, which
\* is also where the first rule would put it.)  No anchor is added or lost,
\* whatever the order in which the anchors are visited.
ShiftedByRemove(q, range) ==
    IF PosLT(range.ending, q)
    THEN Pos(q.row - (range.ending.row - range.beginning.row),
             IF q.row = range.ending.row
             THEN range.beginning.column + q.column - range.ending.column
             ELSE q.column)
    ELSE IF PosLT(range.beginning, q) /\ PosLT(q, range.ending) THEN range.beginning
    ELSE IF q = range.ending THEN range.beginning
    ELSE q

AnchorsShiftedByRemove(d, range, r) ==
    /\ Succeeded(r)
    /\ Handles(r.doc) = Handles(d)
    /\ \A h \in Handles(d) :
          r.doc.anchors.store[h].position = ShiftedByRemove(d.anchors.store[h].position, range)

RemoveShiftsAll(d, orders) ==
    \A range \in ValidRanges(d), order \in orders :
        ~RangeEmpty(range) =>
            AnchorsShiftedByRemove(d, range, remove(d, <<range>>, order))

\* The ranges of the grown document: from any position of its first two rows
\* to any later position.
GrownRanges(d) ==
    {r \in {Rng(a, c) : a \in PositionsOf(d), c \in PositionsOf(d)} :
        r.beginning.row <= 1 /\ PosLT(r.beginning, r.ending)}

C22_RemoveShiftsAnchors ==
    /\ RemoveShiftsAll(doc, Orders(doc))
    /\ LET grown == Grown(doc)
       IN  \A range \in GrownRanges(grown) :
               AnchorsShiftedByRemove(grown, range, remove(grown, <<range>>, Ascending(doc)))
    /\ ~RangeEmpty(selection(doc)) =>
          AnchorsShiftedByRemove(doc, selection(doc), remove(doc, <<>>, Ascending(doc)))

\* A range of the document with an anchor at or before b and an anchor after
\* e on row e.row, and a range across rows of the grown document with an
\* anchor strictly between b and e and an anchor on a row after e.row.
C22_Witness ==
    LET grown == Grown(doc)
    IN  /\ \E range \in ValidRanges(doc), f, h \in Handles(doc) :
              /\ ~RangeEmpty(range)
              /\ PosLE(doc.anchors.store[f].position, range.beginning)
              /\ PosLT(range.ending, doc.anchors.store[h].position)
              /\ doc.anchors.store[h].position.row = range.ending.row
              /\ Succeeded(remove(doc, <<range>>, Ascending(doc)))
        /\ \E range \in GrownRanges(grown), g, k \in Handles(doc) :
              /\ range.ending.row > range.beginning.row
              /\ PosLT(range.beginning, grown.anchors.store[g].position)
              /\ PosLT(grown.anchors.store[g].position, range.ending)
              /\ grown.anchors.store[k].position.row > range.ending.row
              /\ Succeeded(remove(grown, <<range>>, Ascending(doc)))

----------------------------------------------------------------------------
\* C23: a successful remove of a range spanning more than one row, followed
\* immediately by undo(1), leaves the text and every anchor (same handles,
\* same positions) as they were at the start of the undo packet the remove
\* joined.  That is immediately before the remove when the remove starts a
\* packet of its own: when the undo stack was empty or a checkpoint was
\* pending.

\* The ranges of d that span more than one row.
RowSpanning(d) == {r \in ValidRanges(d) : r.ending.row > r.beginning.row}

OwnPacket(d) == Len(d.undo_stack) = 0 \/ d.checkpoint_requested

\* remove(range) and undo(1) on d bring back the lines and anchors `was`.
RemoveUndoBrings(d, range, order, was) ==
    LET r == remove(d, <<range>>, order)
        u == undo(r.doc, 1)
    IN  /\ Succeeded(r)
        /\ Succeeded(u)
        /\ u.doc.lines = was.lines
        /\ u.doc.anchors.store = was.anchors
        /\ text(u.doc) = JoinLines(was.lines)

C23_RemoveThenUndo ==
    /\ \A range \in RowSpanning(doc), order \in Orders(doc) :
          /\ RemoveUndoBrings(doc, range, order, PacketStart(doc))
          /\ OwnPacket(doc) => RemoveUndoBrings(doc, range, order, Snapshot(doc))
    /\ LET grown == checkpoint(Grown(doc)).doc
       IN  \A range \in TallRanges(grown) :
               RemoveUndoBrings(grown, range, Ascending(doc), Snapshot(grown))

\* C23 as stated: in any reachable state the text and the anchors are as
\* they were immediately before the remove.
C23_AsStated ==
    \A range \in RowSpanning(doc), order \in Orders(doc) :
        RemoveUndoBrings(doc, range, order, Snapshot(doc))

\* A checkpoint is pending over a non-empty undo stack, the range starts in
\* mid-row and spans two rows, one anchor lies inside it and one after it,
\* and remove then undo(1) succeed.
C23_Witness ==
    \E range \in RowSpanning(doc), g, h \in Handles(doc) :
        /\ Len(doc.undo_stack) > 0
        /\ doc.checkpoint_requested
        /\ range.beginning.column > 0
        /\ PosLT(range.beginning, doc.anchors.store[g].position)
        /\ PosLT(doc.anchors.store[g].position, range.ending)
        /\ PosLT(range.ending, doc.anchors.store[h].position)
        /\ Succeeded(undo(remove(doc, <<range>>, Ascending(doc)).doc, 1))

----------------------------------------------------------------------------
\* The outcomes of the public mutating calls on d, with the arguments the
\* state machine gives them, the anchors being visited in `order`.
MutatingCalls(d, order) ==
    {insert(d, txt, ropt, order) : txt \in InsertTexts, ropt \in RangeOpts(d)}
        \cup {remove(d, ropt, order) : ropt \in RangeOpts(d)}
        \cup {set_anchor(d, h, AnchorAt(p)) : h \in HandleArgs, p \in PosArgs(d)}
        \cup {create_anchor(d, AnchorAt(p)) : p \in PosArgs(d)}
        \cup {set_cursor_and_mark(d, p) : p \in PosArgs(d)}
        \cup {set_selection(d, r) : r \in RangeArgs(d)}
        \cup {remove_anchor(d, h) : h \in HandleArgs \ {CURSOR, MARK}}
        \cup {set_indentation(d, i) : i \in Indentations}
        \cup {set_language(d, l) : l \in Languages}

----------------------------------------------------------------------------
\* C24: checkpoint() empties the redo stack and sets the pending-checkpoint
\* flag without touching the undo stack or the rest of the document; two or
\* three checkpoints in a row leave what one leaves; no packet of either
\* stack is empty; the next call that records a change after the
\* checkpoints adds exactly one packet on top of the undo stack as it was
\* and clears the flag, and a call that records nothing leaves the flag set;
\* undo(1), checkpoint(), redo(1) ends with NoMoreRedos(0).
CheckpointSets(d) ==
    checkpoint(d) = Ret([d EXCEPT !.redo_stack = <<>>, !.checkpoint_requested = TRUE], Ok)

CheckpointRepeats(d) ==
    /\ checkpoint(checkpoint(d).doc) = checkpoint(d)
    /\ checkpoint(checkpoint(checkpoint(d).doc).doc) = checkpoint(d)

NoEmptyPacket(d) ==
    /\ \A i \in 1..Len(d.undo_stack) : Len(d.undo_stack[i].changes) > 0
    /\ \A i \in 1..Len(d.redo_stack) : Len(d.redo_stack[i].changes) > 0

\* r is the outcome of a call on c, the document d after its checkpoints.
StartsOnePacket(d, c, r) ==
    /\ ~r.panic
    /\ IF r.doc.undo_stack = c.undo_stack
       THEN r.doc = c
       ELSE /\ Len(r.doc.undo_stack) = Len(d.undo_stack) + 1
            /\ Front(r.doc.undo_stack) = d.undo_stack
            /\ Len(Last(r.doc.undo_stack).changes) > 0
            /\ ~r.doc.checkpoint_requested
            /\ Len(r.doc.redo_stack) = 0

RedoAfterCheckpoint(d) ==
    LET c == checkpoint(undo(d, 1).doc).doc
    IN  redo(c, 1) = Ret(c, Res("NoMoreRedos", 0))

C24_Checkpoint ==
    /\ CheckpointSets(doc)
    /\ CheckpointRepeats(doc)
    /\ NoEmptyPacket(doc)
    /\ NoEmptyPacket(checkpoint(doc).doc)
    /\ \A k \in 1..2, order \in Orders(doc) :
          LET c == IF k = 1 THEN checkpoint(doc).doc
                   ELSE checkpoint(checkpoint(doc).doc).doc
          IN  \A r \in MutatingCalls(c, order) : StartsOnePacket(doc, c, r)
    /\ RedoAfterCheckpoint(doc)

\* Both stacks hold a packet and no checkpoint is pending; undo(1) succeeds,
\* and after a checkpoint an insert records a change.
C24_Witness ==
    /\ Len(doc.undo_stack) > 0
    /\ Len(doc.redo_stack) > 0
    /\ ~doc.checkpoint_requested
    /\ Succeeded(undo(doc, 1))
    /\ Len(undo(doc, 1).doc.redo_stack) = Len(doc.redo_stack) + 1
    /\ Succeeded(insert(checkpoint(doc).doc, <<97>>, <<>>, Ascending(doc)))

----------------------------------------------------------------------------
\* C25: forget_undo_redo succeeds, empties both stacks (depth (0, 0)) and
\* leaves everything else as it was: text, anchors, indentation, language
\* and the parse tree.  Afterwards undo(1) returns NoMoreUndos(0), redo(1)
\* returns NoMoreRedos(0), and the next call that records a change leaves
\* exactly one packet to undo and none to redo.
ForgetsStacksOnly(d) ==
    LET f == forget_undo_redo(d)
    IN  /\ Succeeded(f)
        /\ depth(f.doc) = <<0, 0>>
        /\ f.doc = [d EXCEPT !.undo_stack = <<>>, !.redo_stack = <<>>]
        /\ text(f.doc) = text(d)
        /\ Snapshot(f.doc) = Snapshot(d)
        /\ f.doc.tree = d.tree

NothingToUndoOrRedo(d) ==
    /\ undo(d, 1) = Ret(d, Res("NoMoreUndos", 0))
    /\ redo(d, 1) = Ret(d, Res("NoMoreRedos", 0))
    /\ undo_once(d).res.kind = "NoMoreUndos"
    /\ redo_once(d).res.kind = "NoMoreRedos"

\* r is the outcome of a call on f, a document with empty stacks.
FreshPacket(f, r) ==
    /\ ~r.panic
    /\ IF r.doc.undo_stack = <<>>
       THEN r.doc = f
       ELSE /\ depth(r.doc) = <<1, 0>>
            /\ Len(r.doc.undo_stack[1].changes) > 0
            /\ ~r.doc.checkpoint_requested

C25_ForgetUndoRedo ==
    /\ ForgetsStacksOnly(doc)
    /\ NothingToUndoOrRedo(forget_undo_redo(doc).doc)
    /\ \A order \in Orders(doc) :
          \A r \in MutatingCalls(forget_undo_redo(doc).doc, order) :
              FreshPacket(forget_undo_redo(doc).doc, r)

\* Both stacks hold a packet, there is a parse tree and a created anchor,
\* and an insert after forget_undo_redo records a change.
C25_Witness ==
    /\ Len(doc.undo_stack) > 0
    /\ Len(doc.redo_stack) > 0
    /\ doc.tree # <<>>
    /\ Handles(doc) # {CURSOR, MARK}
    /\ depth(insert(forget_undo_redo(doc).doc, <<97>>, <<>>, Ascending(doc)).doc) = <<1, 0>>

----------------------------------------------------------------------------
\* Parse trees for the properties of get_context_at, written with codepoint
\* columns: a root from r0 to the end of the document with two children
\* that meet at b, the first holding one node and the second two, the first
\* of them empty; and a root alone.
ShapePositions(d) ==
    {Pos(0, 0), Pos(0, 1), Pos(0, d.lines[1].length), EndPosition(d)} \cap ValidPositions(d)

Shape(d, r0, a, b, c) ==
    Node("root", r0, EndPosition(d),
         <<Node("first", a, b, <<Node("inner", a, b, <<>>)>>),
           Node("second", b, c, <<Node("point", b, b, <<>>), Node("rest", b, c, <<>>)>>)>>)

Shapes(d) ==
    {Shape(d, x[1], x[2], x[3], x[4]) :
        x \in {y \in ShapePositions(d) \X ShapePositions(d) \X ShapePositions(d)
                                       \X ShapePositions(d) :
                  /\ y[1] \in {Pos(0, 0), y[2]}
                  /\ PosLE(y[2], y[3])
                  /\ PosLE(y[3], y[4])}}
        \cup {Node("root", Pos(0, 0), EndPosition(d), <<>>)}

\* The same tree as tree-sitter reports it: each column is the byte offset
\* of the codepoint in its line.
RECURSIVE InBytes(_, _)
BytePoint(d, p) == Pos(p.row, ByteLen(SubSeq(d.lines[p.row + 1].content, 1, p.column)))

InBytes(d, n) ==
    Node(n.kind, BytePoint(d, n.start_point), BytePoint(d, n.end_point),
         [i \in 1..Len(n.children) |-> InBytes(d, n.children[i])])

Holds(n, p) == PosLE(n.start_point, p) /\ PosLE(p, n.end_point)

----------------------------------------------------------------------------
\* C26: get_context_at returns InvalidPosition whenever the position is not
\* valid, tree or no tree; CannotParse when the position is valid and there
\* is no tree; Ok with a chain of at least one region otherwise.  The
\* document is left as it was.
ContextResult(d, p, r) ==
    /\ ~r.panic
    /\ r.doc = d
    /\ r.res.kind = IF ~position_valid(d, p) THEN "InvalidPosition"
                    ELSE IF d.tree = <<>> THEN "CannotParse"
                    ELSE "Ok"
    /\ r.res.kind = "Ok" <=> Len(r.chain) > 0

C26_ContextErrors ==
    \A p \in AnyPositions(doc), shape \in Shapes(doc) :
        ContextResult(doc, p, get_context_at(doc, p, InBytes(doc, shape)))

\* A changed document whose language has no parser, and so no tree: the
\* context at an invalid position is InvalidPosition, at a valid one
\* CannotParse.
C26_Witness ==
    /\ Len(doc.undo_stack) > 0
    /\ doc.language = "zz"
    /\ doc.tree = <<>>
    /\ \E p \in AnyPositions(doc) \ ValidPositions(doc), shape \in Shapes(doc) :
          get_context_at(doc, p, InBytes(doc, shape)).res.kind = "InvalidPosition"
    /\ \E p \in ValidPositions(doc), shape \in Shapes(doc) :
          get_context_at(doc, p, InBytes(doc, shape)).res.kind = "CannotParse"

----------------------------------------------------------------------------
\* C27: for a valid position and a tree whose sibling ranges are sorted, the
\* chain starts with the root, recorded whether or not its range holds the
\* position; each following region is the lowest-index child of the
\* previous region's node whose range holds the position, both ends
\* included; the chain ends at the first node with no such child; every
\* region after the root holds the position, and every region's range is a
\* valid range of the document in codepoint columns.

\* The chain the claim describes, read off the tree in codepoint columns.
RECURSIVE Descent(_, _)
Descent(n, p) ==
    LET hits == {i \in 1..Len(n.children) : Holds(n.children[i], p)}
    IN  <<[kind |-> n.kind, range |-> Rng(n.start_point, n.end_point)]>>
            \o (IF hits = {} THEN <<>>
                ELSE Descent(n.children[CHOOSE i \in hits : \A j \in hits : i <= j], p))

ContextChain(d, p, shape, r) ==
    /\ ~r.panic
    /\ r.res.kind = "Ok"
    /\ r.chain = Descent(shape, p)
    /\ r.chain[1] = [kind |-> "root", range |-> Rng(shape.start_point, shape.end_point)]
    /\ \A i \in 2..Len(r.chain) :
          PosLE(r.chain[i].range.beginning, p) /\ PosLE(p, r.chain[i].range.ending)
    /\ \A i \in 1..Len(r.chain) : range_valid(d, r.chain[i].range)

C27_ContextChain ==
    doc.tree # <<>> =>
        \A p \in ValidPositions(doc), shape \in Shapes(doc) :
            ContextChain(doc, p, shape, get_context_at(doc, p, InBytes(doc, shape)))

\* In a changed document with a two-byte codepoint before column 2 of row
\* 0: a position held by both children (the first is taken), and a
\* position before the root's range, whose chain is the root alone.
C27_Witness ==
    /\ Len(doc.undo_stack) > 0
    /\ doc.tree # <<>>
    /\ Len(doc.lines) = 2
    /\ doc.lines[1].length >= 2
    /\ doc.lines[1].content[2] = 233
    /\ LET shape == Shape(doc, Pos(0, 1), Pos(0, 1), Pos(0, 2), EndPosition(doc))
       IN  /\ [i \in 1..3 |-> get_context_at(doc, Pos(0, 2), InBytes(doc, shape)).chain[i].kind]
                 = <<"root", "first", "inner">>
           /\ Len(get_context_at(doc, Pos(0, 0), InBytes(doc, shape)).chain) = 1
           /\ InBytes(doc, shape).children[1].end_point.column = 3

----------------------------------------------------------------------------
\* C28: between public calls a parse tree exists exactly when the registry
\* has a parser for the current language, and when it exists it is the
\* result of parsing the whole current text() with the parser of the current
\* language.  This holds of every reachable state and of the outcome of
\* every mutating call, undo and redo made in it; set_language with an
\* unknown language succeeds and leaves no tree.
ParseCurrent(d) ==
    /\ d.tree # <<>> <=> d.language \in KnownLanguages
    /\ d.tree # <<>> => d.tree = <<[language |-> d.language, text |-> text(d)]>>

UnknownLanguage(d, l) ==
    /\ Succeeded(set_language(d, l))
    /\ set_language(d, l).doc.tree = <<>>
    /\ set_language(d, l).doc.language = l

C28_ParseTreeCurrent ==
    /\ ParseCurrent(doc)
    /\ \A r \in MutatingCalls(doc, Ascending(doc)) : ParseCurrent(r.doc)
    /\ \A n \in 1..2 : ParseCurrent(undo(doc, n).doc) /\ ParseCurrent(redo(doc, n).doc)
    /\ \A l \in Languages \ KnownLanguages : UnknownLanguage(doc, l)

\* A set_language to an unknown language was undone: the document is in a
\* known language again, with a tree, and the text can be changed and the
\* language change redone.
C28_Witness ==
    /\ doc.tree # <<>>
    /\ Len(doc.redo_stack) > 0
    /\ Last(doc.redo_stack).changes[1].type = "LanguageChange"
    /\ Last(doc.redo_stack).changes[1].value \notin KnownLanguages
    /\ Succeeded(redo(doc, 1))
    /\ redo(doc, 1).doc.tree = <<>>
    /\ Succeeded(remove(doc, <<Rng(Pos(0, 0), Pos(0, 1))>>, Ascending(doc)))

----------------------------------------------------------------------------
\* C29: for a policy with spaces_per_tab >= 1, a line and a delta,
\* measure(produce(n)) reports width n; indent(line, delta, true) is the
\* margin of width max(0, w + delta * spaces_per_tab), w being the measured
\* width of the line's margin, rendered tabs first then spaces (or all
\* spaces), followed by the line's content after its margin; and
\* indent(line, delta, false) is that margin alone.

IndentPolicies == {IndSpaces(1), IndSpaces(4), IndTabs(2), IndTabs(4)}

\* Left margins: none, " ", tab, " " tab, tab " ", five spaces.
Margins == {<<>>, <<32>>, <<9>>, <<32, 9>>, <<9, 32>>, <<32, 32, 32, 32, 32>>}

SmallDeltas == {-3, -2, -1, 0, 1, 2, 3}

\* The number of leading spaces and tabs of a line, and their width.
RECURSIVE MarginLen(_)
MarginLen(s) ==
    IF Len(s) = 0 \/ s[1] \notin {32, 9} THEN 0 ELSE 1 + MarginLen(Tail(s))

RECURSIVE Width(_, _)
Width(ind, m) ==
    IF Len(m) = 0 THEN 0
    ELSE (IF m[1] = 9 THEN ind.spaces_per_tab ELSE 1) + Width(ind, Tail(m))

\* A margin of width n as the policy renders it.
Rendered(ind, n) ==
    IF ind.use_spaces THEN [i \in 1..n |-> 32]
    ELSE [i \in 1..n - (ind.spaces_per_tab - 1) * (n \div ind.spaces_per_tab) |->
             IF i <= n \div ind.spaces_per_tab THEN 9 ELSE 32]

MeasuresProduced(ind, n) ==
    /\ produce(ind, n) = Rendered(ind, n)
    /\ measure(ind, produce(ind, n)).spaces = n
    /\ measure(ind, produce(ind, n)).bytes = Len(produce(ind, n))
    /\ ~measure(ind, produce(ind, n)).overflow

\* indent(s, delta, ..) is what the claim says, in either build.
IndentRight(ind, s, delta) ==
    LET w == Width(ind, SubSeq(s, 1, MarginLen(s)))
        n == IF w + delta * ind.spaces_per_tab < 0 THEN 0 ELSE w + delta * ind.spaces_per_tab
    IN  \A build \in Builds :
            /\ indent(ind, s, delta, TRUE, build)
                  = [panic |-> FALSE,
                     value |-> Rendered(ind, n) \o SubSeq(s, MarginLen(s) + 1, Len(s))]
            /\ indent(ind, s, delta, FALSE, build)
                  = [panic |-> FALSE, value |-> Rendered(ind, n)]

\* The lines indent is given: row 0 of the document behind each margin.
IndentLines == {m \o doc.lines[1].content : m \in Margins}

\* delta tab stops and the resulting width are within isize.
InRange(ind, s, delta) ==
    /\ FitsIsize(delta * ind.spaces_per_tab)
    /\ FitsIsize(Width(ind, SubSeq(s, 1, MarginLen(s))) + delta * ind.spaces_per_tab)

\* C29 as stated: for any integer delta (every delta of isize, the least
\* and the greatest included).
C29_IndentAnyDelta ==
    /\ \A ind \in IndentPolicies \cup {doc.indentation}, n \in 0..(2 * MaxLineLen) :
          MeasuresProduced(ind, n)
    /\ \A ind \in IndentPolicies \cup {doc.indentation}, s \in IndentLines,
          delta \in SmallDeltas \cup {IsizeMin, IsizeMax} :
          IndentRight(ind, s, delta)

\* The part of C29 that holds: the same for every delta whose tab stops and
\* resulting width are within isize; and tabs(4).indent("     Hello", 1,
\* true) is two tabs, a space and "Hello".
C29_IndentWithinRange ==
    /\ \A ind \in IndentPolicies \cup {doc.indentation}, n \in 0..(2 * MaxLineLen) :
          MeasuresProduced(ind, n)
    /\ \A ind \in IndentPolicies \cup {doc.indentation}, s \in IndentLines,
          delta \in SmallDeltas \cup {IsizeMin, IsizeMax} :
          InRange(ind, s, delta) => IndentRight(ind, s, delta)
    /\ \A build \in Builds :
          indent(IndTabs(4), <<32, 32, 32, 32, 32, 72, 101, 108, 108, 111>>, 1, TRUE, build)
              = [panic |-> FALSE, value |-> <<9, 9, 32, 72, 101, 108, 108, 111>>]

----------------------------------------------------------------------------
\* C30: a successful public mutating call raises the undo depth by exactly
\* 1 if the undo stack was empty or a checkpoint was pending when the call
\* began, and by 0 otherwise, whatever it records: an insert that replaces
\* a non-empty range (removal, insertion and all anchor rebases),
\* set_selection and set_cursor_and_mark included.  So a replacing insert
\* made after checkpoint() is reverted completely by one undo(1).
DepthRaised(d, r) ==
    Succeeded(r) =>
        /\ Len(r.doc.undo_stack) = Len(d.undo_stack) + (IF OwnPacket(d) THEN 1 ELSE 0)
        /\ Len(r.doc.undo_stack) <= Len(d.undo_stack) + 1
        /\ Len(r.doc.redo_stack) = 0

\* The insert of txt over range, made after a checkpoint, is undone by one
\* undo(1).
ReplaceReverted(d, txt, range, order) ==
    LET r == insert(checkpoint(d).doc, txt, <<range>>, order)
        u == undo(r.doc, 1)
    IN  /\ DepthRaised(d, insert(d, txt, <<range>>, order))
        /\ Succeeded(r) =>
              /\ Len(r.doc.undo_stack) = Len(d.undo_stack) + 1
              /\ Len(Last(r.doc.undo_stack).changes) >= 2
              /\ u.res = Res("Ok", 1)
              /\ Snapshot(u.doc) = Snapshot(d)
              /\ u.doc.undo_stack = d.undo_stack

C30_OnePacketPerCall ==
    /\ \A order \in Orders(doc) :
          /\ \A r \in MutatingCalls(doc, order) : DepthRaised(doc, r)
          /\ \A r \in MutatingCalls(checkpoint(doc).doc, order) :
                DepthRaised(checkpoint(doc).doc, r)
    /\ \A range \in ValidRanges(doc), txt \in InsertTexts \ {<<>>} :
          ~RangeEmpty(range) => ReplaceReverted(doc, txt, range, Ascending(doc))

\* The undo stack holds a packet and no checkpoint is pending; a two-line
\* insert over a range across two rows, with an anchor after it, joins the
\* packet, and made after a checkpoint it adds one packet; set_selection
\* and set_cursor_and_mark succeed.
C30_Witness ==
    /\ Len(doc.undo_stack) > 0
    /\ ~doc.checkpoint_requested
    /\ \E range \in ValidRanges(doc), h \in Handles(doc) :
          /\ range.ending.row > range.beginning.row
          /\ PosLT(range.ending, doc.anchors.store[h].position)
          /\ Succeeded(insert(doc, <<233, 10, 97>>, <<range>>, Ascending(doc)))
          /\ Len(insert(doc, <<233, 10, 97>>, <<range>>, Ascending(doc)).doc.undo_stack)
                = Len(doc.undo_stack)
          /\ Len(insert(checkpoint(doc).doc, <<233, 10, 97>>, <<range>>,
                        Ascending(doc)).doc.undo_stack) = Len(doc.undo_stack) + 1
    /\ Succeeded(set_selection(doc, Rng(Pos(0, 0), EndPosition(doc))))
    /\ Succeeded(set_cursor_and_mark(doc, EndPosition(doc)))

----------------------------------------------------------------------------
\* C31: undo and redo (any count, and undo_once and redo_once) leave the
\* pending-checkpoint flag as it was.  When an undo leaves the undo stack
\* non-empty with no checkpoint pending, the next call that records a
\* change appends to the packet now on top: the undo depth and the packets
\* below stay, the top packet keeps its changes and gains the new ones, and
\* the redo stack is emptied; undo(1) then brings the document to where that
\* older packet began, which is where undo(1) without the new change brings
\* it.
FlagKept(d) ==
    /\ \A n \in 0..(Len(d.undo_stack) + 1) :
          undo(d, n).doc.checkpoint_requested = d.checkpoint_requested
    /\ \A n \in 0..(Len(d.redo_stack) + 1) :
          redo(d, n).doc.checkpoint_requested = d.checkpoint_requested
    /\ undo_once(d).doc.checkpoint_requested = d.checkpoint_requested
    /\ redo_once(d).doc.checkpoint_requested = d.checkpoint_requested

\* r is the outcome of a call on u, the document an undo left.
JoinsTopPacket(u, r) ==
    (~r.panic /\ r.doc.undo_stack # u.undo_stack) =>
        LET old == Last(u.undo_stack).changes
            top == Last(r.doc.undo_stack).changes
            back == undo(r.doc, 1)
        IN  /\ Len(r.doc.undo_stack) = Len(u.undo_stack)
            /\ Front(r.doc.undo_stack) = Front(u.undo_stack)
            /\ Len(top) > Len(old)
            /\ SubSeq(top, 1, Len(old)) = old
            /\ Len(r.doc.redo_stack) = 0
            /\ back.res = Res("Ok", 1)
            /\ Snapshot(back.doc) = Last(u.undo_stack).before
            /\ Snapshot(back.doc) = Snapshot(undo(u, 1).doc)
            /\ depth(back.doc) = <<Len(u.undo_stack) - 1, 1>>

ChangeAfterUndo(d, n) ==
    LET u == undo(d, n)
    IN  /\ u.res = Res("Ok", n)
        /\ Len(u.doc.undo_stack) = Len(d.undo_stack) - n
        /\ ~u.doc.checkpoint_requested =>
              \A order \in Orders(u.doc) :
                  \A r \in MutatingCalls(u.doc, order) : JoinsTopPacket(u.doc, r)

C31_ChangeAfterUndoJoinsPacket ==
    /\ FlagKept(doc)
    /\ \A n \in 1..(Len(doc.undo_stack) - 1) : ChangeAfterUndo(doc, n)

\* Two packets and no checkpoint pending: undo(1) leaves one packet and one
\* to redo; an insert made then joins the packet left, empties the redo
\* stack, and the next undo(1) brings back the text of two undos.
C31_Witness ==
    /\ Len(doc.undo_stack) = 2
    /\ ~doc.checkpoint_requested
    /\ depth(undo(doc, 1).doc) = <<1, Len(doc.redo_stack) + 1>>
    /\ LET u == undo(doc, 1).doc
           r == insert(u, <<97>>, <<>>, Ascending(u))
       IN  /\ Succeeded(r)
           /\ depth(r.doc) = <<1, 0>>
           /\ Len(Last(r.doc.undo_stack).changes) > Len(Last(u.undo_stack).changes)
           /\ text(undo(r.doc, 1).doc) = text(undo(doc, 2).doc)
           /\ text(undo(r.doc, 1).doc) # text(u)

----------------------------------------------------------------------------
\* C32: after a successful insert with no explicit range, whether the
\* selection was empty or not and whichever of cursor and mark came first,
\* cursor and mark are equal and sit at the end of the inserted text:
\* selection() is empty, and text_range from the beginning of the old
\* selection to the cursor is the inserted text.  Such an insert of a
\* non-empty text succeeds.

\* The document with the mark at b and the cursor at e, and the reverse.
Selecting(d, range) == set_selection(d, range).doc

SelectingBackwards(d, range) ==
    set_mark(set_cursor(d, range.beginning).doc, range.ending).doc

\* insert(txt) with no range on d.
CursorAfterInserted(d, txt, order) ==
    LET r == insert(d, txt, <<>>, order)
        b == selection(d).beginning
        c == cursor(r.doc).position
    IN  /\ txt # <<>> => Succeeded(r)
        /\ Succeeded(r) =>
              /\ cursor(r.doc) = mark(r.doc)
              /\ c = InsertedEnd(b, prep_text(txt))
              /\ selection(r.doc) = Rng(c, c)
              /\ RangeEmpty(selection(r.doc))
              /\ text_range(r.doc, Rng(b, c)) = <<txt>>

InsertsAtSelection(d, texts, order) ==
    \A txt \in texts : CursorAfterInserted(d, txt, order)

C32_InsertCollapsesSelection ==
    /\ \A order \in Orders(doc) :
          InsertsAtSelection(doc, InsertTexts \cup NewlineTexts, order)
    /\ \A range \in ValidRanges(doc) :
          LET forwards == Selecting(doc, range)
              backwards == SelectingBackwards(doc, range)
          IN  /\ InsertsAtSelection(forwards, InsertTexts \cup {<<10>>}, Ascending(doc))
              /\ InsertsAtSelection(backwards, InsertTexts \cup {<<10>>}, Ascending(doc))

\* The selection spans two rows with the mark before the cursor and starts
\* in mid-row; a two-line insert with no range succeeds and moves the cursor.
C32_Witness ==
    /\ PosLT(mark(doc).position, cursor(doc).position)
    /\ mark(doc).position.row < cursor(doc).position.row
    /\ mark(doc).position.column > 0
    /\ LET r == insert(doc, <<233, 10, 97>>, <<>>, Ascending(doc))
       IN  /\ Succeeded(r)
           /\ cursor(r.doc).position = Pos(mark(doc).position.row + 1, 1)
           /\ mark(r.doc).position = cursor(r.doc).position
           /\ text_range(r.doc, Rng(mark(doc).position, cursor(r.doc).position))
                 = <<<<233, 10, 97>>>>

----------------------------------------------------------------------------
\* C33: after a successful remove of the range (b, e), every anchor that
\* was at p with b < p <= e, an anchor exactly at e included, is at b, and
\* every anchor that was strictly after e is followed, up to the end of the
\* document, by the text that followed it before the removal.

\* The text of d from position p to its end (an Option).
TextFrom(d, p) == text_range(d, Rng(p, EndPosition(d)))

\* r is the outcome of remove(range) on d.
RemoveKeepsFollowingText(d, range, r) ==
    /\ Succeeded(r)
    /\ \A h \in Handles(d) :
          LET p == d.anchors.store[h].position
              q == r.doc.anchors.store[h].position
          IN  /\ h \in Handles(r.doc)
              /\ (PosLT(range.beginning, p) /\ PosLE(p, range.ending)) =>
                    q = range.beginning
              /\ PosLT(range.ending, p) =>
                    /\ Len(TextFrom(d, p)) = 1
                    /\ TextFrom(r.doc, q) = TextFrom(d, p)

C33_RemoveAnchorsKeepFollowingText ==
    /\ \A range \in ValidRanges(doc), order \in Orders(doc) :
          ~RangeEmpty(range) =>
              RemoveKeepsFollowingText(doc, range, remove(doc, <<range>>, order))
    /\ LET grown == Grown(doc)
       IN  \A range \in GrownRanges(grown) :
               RemoveKeepsFollowingText(grown, range,
                                        remove(grown, <<range>>, Ascending(doc)))
    /\ ~RangeEmpty(selection(doc)) =>
          RemoveKeepsFollowingText(doc, selection(doc), remove(doc, <<>>, Ascending(doc)))

\* One anchor exactly at the end of a range and one after it, with text
\* following: the remove puts the first at b.  In the grown document the
\* range from (0,1) to the first anchor spans three rows, and the remove
\* leaves the second as far after b as it was after e.
C33_Witness ==
    \E g, h \in Handles(doc) :
        LET grown == Grown(doc)
            gp == grown.anchors.store[g].position
            hp == grown.anchors.store[h].position
            tall == remove(grown, <<Rng(Pos(0, 1), gp)>>, Ascending(doc))
            flat == remove(doc, <<Rng(Pos(0, 0), doc.anchors.store[g].position)>>,
                           Ascending(doc))
        IN  /\ PosLT(doc.anchors.store[g].position, doc.anchors.store[h].position)
            /\ PosLT(doc.anchors.store[h].position, EndPosition(doc))
            /\ Succeeded(flat)
            /\ flat.doc.anchors.store[g].position = Pos(0, 0)
            /\ gp.row = 2
            /\ hp.row = 2
            /\ Succeeded(tall)
            /\ tall.doc.anchors.store[g].position = Pos(0, 1)
            /\ tall.doc.anchors.store[h].position = Pos(0, 1 + hp.column - gp.column)
            /\ TextFrom(tall.doc, tall.doc.anchors.store[h].position) = TextFrom(grown, hp)
            /\ TextFrom(grown, hp) # <<<<>>>>

----------------------------------------------------------------------------
\* C34: after a successful insert at an empty range P, of one line or of
\* several and at any column, every anchor that was at or after P is
\* followed, up to the end of the document, by the text that followed it
\* before (an anchor at P is at the end of the inserted text), and every
\* anchor that was before P is preceded by the text that preceded it before.

\* The text of d from its start to position p (an Option).
TextUpTo(d, p) == text_range(d, Rng(Pos(0, 0), p))

\* insert(txt) at the empty range P on d, the anchors visited in `order`.
InsertKeepsSurroundingText(d, txt, P, order) ==
    LET r == insert(d, txt, <<Rng(P, P)>>, order)
    IN  /\ txt # <<>> => Succeeded(r)
        /\ Succeeded(r) =>
              \A h \in Handles(d) :
                  LET p == d.anchors.store[h].position
                      q == r.doc.anchors.store[h].position
                  IN  /\ h \in Handles(r.doc)
                      /\ PosLE(P, p) =>
                            /\ Len(TextFrom(d, p)) = 1
                            /\ TextFrom(r.doc, q) = TextFrom(d, p)
                      /\ p = P => q = InsertedEnd(P, prep_text(txt))
                      /\ PosLT(p, P) =>
                            /\ Len(TextUpTo(d, p)) = 1
                            /\ TextUpTo(r.doc, q) = TextUpTo(d, p)

C34_InsertAnchorsKeepSurroundingText ==
    /\ \A P \in ValidPositions(doc), txt \in InsertTexts \cup NewlineTexts,
          order \in Orders(doc) :
          InsertKeepsSurroundingText(doc, txt, P, order)
    /\ LET grown == Grown(doc)
       IN  \A P \in PositionsOf(grown), txt \in InsertTexts :
               InsertKeepsSurroundingText(grown, txt, P, Ascending(doc))

\* Insertion in mid-row with one anchor before P, one at P and one after P
\* with text following it: a two-line insert succeeds, the anchor at P is at
\* the end of the inserted text and the anchor before P has not moved.
C34_Witness ==
    \E P \in ValidPositions(doc), f, g, h \in Handles(doc) :
        LET r == insert(doc, <<233, 10, 97>>, <<Rng(P, P)>>, Ascending(doc))
        IN  /\ P.column > 0
            /\ PosLT(doc.anchors.store[f].position, P)
            /\ doc.anchors.store[g].position = P
            /\ PosLT(P, doc.anchors.store[h].position)
            /\ Succeeded(r)
            /\ r.doc.anchors.store[f] = doc.anchors.store[f]
            /\ r.doc.anchors.store[g].position = Pos(P.row + 1, 1)
            /\ TextFrom(r.doc, r.doc.anchors.store[g].position) # <<<<>>>>
            /\ TextUpTo(r.doc, r.doc.anchors.store[f].position)
                  = TextUpTo(doc, doc.anchors.store[f].position)

----------------------------------------------------------------------------
\* C35: frame conditions of successful calls.  set_anchor, set_cursor,
\* set_mark, set_cursor_and_mark, set_selection, create_anchor,
\* remove_anchor, set_indentation, set_language and checkpoint leave text()
\* and every line as they were; insert and remove leave the indentation,
\* the language and the set of anchor handles as they were; set_anchor(h)
\* changes no anchor other than h; set_indentation changes neither the
\* anchors nor the language.

\* r, the outcome of a call on d, left the text alone.
LinesKept(d, r) ==
    Succeeded(r) => r.doc.lines = d.lines /\ text(r.doc) = text(d)

\* r left the indentation, the language and the handles alone.
SettingsKept(d, r) ==
    Succeeded(r) =>
        /\ r.doc.indentation = d.indentation
        /\ r.doc.language = d.language
        /\ Handles(r.doc) = Handles(d)

\* r left every anchor but those of `handles` alone.
OtherAnchorsKept(d, handles, r) ==
    Succeeded(r) =>
        /\ Handles(r.doc) = Handles(d)
        /\ \A k \in Handles(d) \ handles : r.doc.anchors.store[k] = d.anchors.store[k]

AnchorCallsFrame(d) ==
    /\ \A p \in AnyPositions(d) :
          /\ \A h \in HandleArgs :
                /\ LinesKept(d, set_anchor(d, h, AnchorAt(p)))
                /\ OtherAnchorsKept(d, {h}, set_anchor(d, h, AnchorAt(p)))
          /\ LinesKept(d, set_cursor(d, p))
          /\ OtherAnchorsKept(d, {CURSOR}, set_cursor(d, p))
          /\ LinesKept(d, set_mark(d, p))
          /\ OtherAnchorsKept(d, {MARK}, set_mark(d, p))
          /\ LinesKept(d, set_cursor_and_mark(d, p))
          /\ LinesKept(d, create_anchor(d, AnchorAt(p)))
    /\ \A range \in AnyRanges(d) : LinesKept(d, set_selection(d, range))
    /\ \A h \in HandleArgs \ {CURSOR, MARK} : LinesKept(d, remove_anchor(d, h))

SettingCallsFrame(d) ==
    /\ \A i \in Indentations :
          /\ LinesKept(d, set_indentation(d, i))
          /\ OtherAnchorsKept(d, {}, set_indentation(d, i))
          /\ Succeeded(set_indentation(d, i)) =>
                /\ set_indentation(d, i).doc.anchors = d.anchors
                /\ set_indentation(d, i).doc.language = d.language
    /\ \A l \in Languages : LinesKept(d, set_language(d, l))
    /\ LinesKept(d, checkpoint(d))

EditCallsFrame(d) ==
    /\ \A ropt \in AnyRangeOpts(d) :
          /\ SettingsKept(d, remove(d, ropt, Ascending(d)))
          /\ \A txt \in InsertTexts : SettingsKept(d, insert(d, txt, ropt, Ascending(d)))
    /\ \A ropt \in RangeOpts(d), order \in Orders(d) :
          /\ SettingsKept(d, remove(d, ropt, order))
          /\ \A txt \in InsertTexts : SettingsKept(d, insert(d, txt, ropt, order))

C35_FrameConditions ==
    /\ AnchorCallsFrame(doc)
    /\ SettingCallsFrame(doc)
    /\ EditCallsFrame(doc)

\* A changed two-row document with a created anchor away from cursor and
\* mark: set_anchor on it, remove_anchor of it, set_indentation to another
\* policy, set_language and a replacing insert all succeed.
C35_Witness ==
    /\ Len(doc.lines) = 2
    /\ Len(doc.undo_stack) > 0
    /\ \E h \in Handles(doc) \ {CURSOR, MARK}, i \in Indentations :
          /\ doc.anchors.store[h] # cursor(doc)
          /\ Succeeded(set_anchor(doc, h, AnchorAt(Pos(0, 0))))
          /\ set_anchor(doc, h, AnchorAt(Pos(0, 0))).doc.anchors.store[h] # doc.anchors.store[h]
          /\ Succeeded(remove_anchor(doc, h))
          /\ i # doc.indentation
          /\ set_indentation(doc, i).doc.indentation = i
    /\ Succeeded(set_language(doc, "zz"))
    /\ set_language(doc, "zz").doc.language # doc.language
    /\ Succeeded(insert(doc, <<233, 10, 97>>, <<Rng(Pos(0, 1), EndPosition(doc))>>,
                        Ascending(doc)))

----------------------------------------------------------------------------
\* C36: in every reachable state every packet of the undo stack and of the
\* redo stack holds at least one change, and no call pushes an empty
\* packet: not checkpoint (it pushes none), not push_undo (reached through
\* every public mutating call, with and without a checkpoint pending), not
\* undo_once and not redo_once, whose pushed packet holds as many changes as
\* the packet they popped.

\* Every call on d leaves no packet empty.
CallsPushNoEmptyPacket(d) ==
    \A order \in Orders(d) :
        \A r \in MutatingCalls(d, order) : NoEmptyPacket(r.doc)

\* The packet undo_once pushes on the redo stack, and redo_once on the undo
\* stack, is as long as the one popped.
PacketLengthKept(d) ==
    /\ Len(d.undo_stack) > 0 =>
          /\ Succeeded(undo_once(d))
          /\ Len(Last(undo_once(d).doc.redo_stack).changes)
                = Len(Last(d.undo_stack).changes)
    /\ Len(d.redo_stack) > 0 =>
          /\ Succeeded(redo_once(d))
          /\ Len(Last(redo_once(d).doc.undo_stack).changes)
                = Len(Last(d.redo_stack).changes)

C36_PacketsNeverEmpty ==
    /\ NoEmptyPacket(doc)
    /\ checkpoint(doc).doc.undo_stack = doc.undo_stack
    /\ CallsPushNoEmptyPacket(doc)
    /\ CallsPushNoEmptyPacket(checkpoint(doc).doc)
    /\ NoEmptyPacket(undo_once(doc).doc)
    /\ NoEmptyPacket(redo_once(doc).doc)
    /\ PacketLengthKept(doc)
    /\ \A n \in 0..(Len(doc.undo_stack) + 1) : NoEmptyPacket(undo(doc, n).doc)
    /\ \A n \in 0..(Len(doc.redo_stack) + 1) : NoEmptyPacket(redo(doc, n).doc)

\* A checkpoint is pending over packets on both stacks, the packet to redo
\* holds several changes, and undo_once, redo_once and an insert succeed.
C36_Witness ==
    /\ doc.checkpoint_requested
    /\ Len(doc.undo_stack) > 0
    /\ Len(doc.redo_stack) > 0
    /\ Len(Last(doc.redo_stack).changes) >= 2
    /\ Len(undo_once(doc).doc.redo_stack) = Len(doc.redo_stack) + 1
    /\ Len(redo_once(doc).doc.undo_stack) = Len(doc.undo_stack) + 1
    /\ Len(insert(doc, <<97>>, <<>>, Ascending(doc)).doc.undo_stack)
          = Len(doc.undo_stack) + 1

----------------------------------------------------------------------------
\* C37: what insert and remove make of the document (result, text, every
\* anchor, depth) does not depend on the order in which the anchor store is
\* iterated, and neither does what undo(1) of the resulting packet
\* restores.  In one remove, and in one insert at an empty range, each
\* handle is rebased at most once and from its position before the edit:
\* the inverse recorded for it holds that position.

\* r and r0 are the outcomes of one call under two iteration orders.
SameOutcome(r, r0) ==
    LET u == undo(r.doc, 1)
        u0 == undo(r0.doc, 1)
    IN  /\ r.panic = r0.panic
        /\ r.res = r0.res
        /\ Snapshot(r.doc) = Snapshot(r0.doc)
        /\ text(r.doc) = text(r0.doc)
        /\ depth(r.doc) = depth(r0.doc)
        /\ u.res = u0.res
        /\ Snapshot(u.doc) = Snapshot(u0.doc)
        /\ depth(u.doc) = depth(u0.doc)

\* The anchor changes r recorded: one at most for each handle, each holding
\* the anchor as it was in d.
RebasedOnce(d, r) ==
    Succeeded(r) =>
        LET rec == Recorded(d, r)
            sets == {i \in 1..Len(rec) : rec[i].type = "AnchorSet"}
        IN  /\ \A i, j \in sets : rec[i].handle = rec[j].handle => i = j
            /\ \A i \in sets : rec[i].value = d.anchors.store[rec[i].handle]
            /\ Len(rec) = Cardinality(sets) + 1

RemoveOrderFree(d, ropt) ==
    LET r0 == remove(d, ropt, Ascending(d))
    IN  \A order \in Orders(d) :
            LET r == remove(d, ropt, order)
            IN  SameOutcome(r, r0) /\ RebasedOnce(d, r)

InsertOrderFree(d, txt, ropt) ==
    LET r0 == insert(d, txt, ropt, Ascending(d))
    IN  \A order \in Orders(d) :
            LET r == insert(d, txt, ropt, order)
            IN  /\ SameOutcome(r, r0)
                /\ (ropt # <<>> /\ RangeEmpty(ropt[1])) => RebasedOnce(d, r)

C37_IterationOrderIrrelevant ==
    /\ \A range \in ValidRanges(doc) : RemoveOrderFree(doc, <<range>>)
    /\ \A ropt \in RangeOpts(doc) :
          /\ RemoveOrderFree(doc, ropt)
          /\ \A txt \in InsertTexts : InsertOrderFree(doc, txt, ropt)
    /\ \A P \in ValidPositions(doc), txt \in {<<97>>, <<233, 10, 97>>} :
          InsertOrderFree(doc, txt, <<Rng(P, P)>>)

\* One anchor inside a range and one after it: a remove and a replacing
\* insert rebase both, the changes are recorded in a different order under
\* two iteration orders, and the documents are the same.
C37_Witness ==
    \E o1, o2 \in Orders(doc), range \in ValidRanges(doc), g, h \in Handles(doc) :
        LET r1 == remove(doc, <<range>>, o1)
            r2 == remove(doc, <<range>>, o2)
            i1 == insert(doc, <<233, 10, 97>>, <<range>>, o1)
            i2 == insert(doc, <<233, 10, 97>>, <<range>>, o2)
        IN  /\ PosLT(range.beginning, doc.anchors.store[g].position)
            /\ PosLT(doc.anchors.store[g].position, range.ending)
            /\ PosLT(range.ending, doc.anchors.store[h].position)
            /\ Succeeded(r1)
            /\ Succeeded(i1)
            /\ r1.doc.undo_stack # r2.doc.undo_stack
            /\ i1.doc.undo_stack # i2.doc.undo_stack
            /\ Snapshot(r1.doc) = Snapshot(r2.doc)
            /\ Snapshot(i1.doc) = Snapshot(i2.doc)
            /\ r1.doc.anchors.store[g] # doc.anchors.store[g]
            /\ r1.doc.anchors.store[h] # doc.anchors.store[h]

============================================================================
